---- MODULE Spec2Model ----
(***************************************************************************)
(* perdata-orm: the entry registry (identity map), the entry/property      *)
(* model with relation binding, and the query engine (find / insert /      *)
(* save with the cascading flush) over a relational store.                 *)
(*                                                                         *)
(* Two tables are modelled: T1 (the source table, it declares the relation *)
(* column "relation") and T2 (the foreign table).  Both have the base      *)
(* columns id (generated), key and value; the join column of the relation  *)
(* is synthesized on the owning table and is called "join" here            *)
(* (<targetTable>_<targetIdColumn> in the program).                        *)
(***************************************************************************)
EXTENDS Integers, Sequences, FiniteSets, TLC

VARIABLES
    meta,       \* MetadataRegistry: its storage, the TableMetadata objects made,
                \* and the calls of get under way
    owner,      \* RelationColumnMetadata.owner of T1.relation
    schema,     \* the rest of the entity descriptions: collection and type of
                \* T1.relation, chain when T2 declares a relation to T3
    entries,    \* EntryRegistry.storage: every Entry created, in creation order
    mapId,      \* EntryRegistry.mapId: per table a BiMap id <-> entry
    thrown,     \* TRUE when the last registry call / operation threw
    store,      \* the relational store: per table the rows, row k has id k
    log,        \* the SQL statements the operation has issued, in issue order
    op,         \* the running operation
    pc,         \* position of the running operation
    wait,       \* statements awaited by concurrently flushed foreign entries
    frames,     \* the calls of flush of a cascade over a chain of relations
    trx,        \* the transaction of DataSource.transaction: its state, the
                \* committed rows it started from and the rows it ended with
    prev,       \* the operation that returned last (its input and result)
    nops        \* number of operations started

vars == <<meta, owner, schema, frames, trx, entries, mapId, thrown, store, log, op, pc, wait, prev, nops>>

(***************************************************************************)
(* Bounds                                                                  *)
(***************************************************************************)
MaxOps == 3         \* operations the caller runs one after the other
MaxRegistry == 2    \* entries of the registry when it is used directly
MaxLinked == 3      \* entries of the registry when relations are set directly
MaxCascade == 4     \* entries of the registry a cascade is run over
MaxDerive == 2      \* calls of MetadataRegistry.get by the program
MaxRows == 2        \* rows of a table when the store is filled directly
MaxBiMap == 4       \* keys and values of a BiMap when it is used directly
MaxNest == 4        \* calls under way the recursion over a cycle is followed to

(***************************************************************************)
(* Values.  A JavaScript value is modelled by a string: "undef" is         *)
(* undefined, "null" is SQL NULL, "n1".. are numbers, "s1".. are the       *)
(* decimal strings of those numbers, anything else is a text.              *)
(***************************************************************************)
Undef == "undef"
Null == "null"
NumName == <<"n1", "n2", "n3", "n4", "n5", "n6", "n7", "n8">>
StrName == <<"s1", "s2", "s3", "s4", "s5", "s6", "s7", "s8">>
Nums == {NumName[i] : i \in DOMAIN NumName}
Strs == {StrName[i] : i \in DOMAIN StrName}
NumIndex(v) == CHOOSE i \in DOMAIN NumName : NumName[i] = v \/ StrName[i] = v

\* T1 declares the relation to T2; in a chain T2 declares a relation to T3;
\* in a cycle T1 declares the relation to itself ("self"), or T2 declares a
\* relation to T1 ("mutual")
Tables == {"T1", "T2"} \cup (IF schema.chain THEN {"T3"} ELSE {})
NoEntry == 0

\* string().nullable().optional().decode(value) ?? undefined
getRawSingleValue(v) ==
    IF v \in {Undef, Null} THEN Undef
    ELSE IF v \in Nums THEN StrName[NumIndex(v)]
    ELSE v

(***************************************************************************)
(* Metadata of the tables                                                  *)
(***************************************************************************)
OwnerTable == IF owner = "source" THEN "T1" ELSE "T2"

relationColumns(t) ==
    IF \/ t = "T1"
       \/ (t = "T2" /\ (schema.chain \/ schema.cycle = "mutual"))
    THEN <<"relation">> ELSE <<>>

\* RelationColumnMetadata.foreignTable of the relation column of t
foreignTable(t) ==
    IF schema.cycle = "self" THEN "T1"
    ELSE IF t = "T1" THEN "T2"
    ELSE IF schema.cycle = "mutual" THEN "T1" ELSE "T3"

\* RelationColumnMetadata.ownerTable: t is the owner table of a relation
ownsJoin(t) ==
    IF owner = "source" THEN relationColumns(t) # <<>>
    ELSE t = "T2" \/ (t = "T3" /\ schema.chain)

\* TableMetadata.baseColumns, the synthesized join column appended last
baseColumns(t) ==
    IF ownsJoin(t) THEN <<"id", "key", "value", "join">>
    ELSE <<"id", "key", "value">>

ColumnSet(t) == {baseColumns(t)[i] : i \in DOMAIN baseColumns(t)}

\* ColumnMetadata.id / ColumnMetadata.generated
IsIdColumn(c) == c = "id"
IsGenerated(c) == c = "id"

\* RelationColumnMetadata.sourceColumn / foreignColumn (names)
sourceColumn == IF owner = "source" THEN "join" ELSE "id"
foreignColumn == IF owner = "source" THEN "id" ELSE "join"

(***************************************************************************)
(* Partial maps and the BiMap                                              *)
(***************************************************************************)
\* x is evaluated once and handed to F
With(x, F(_)) == F(x)

EmptyMap == [x \in {} |-> 0]
MapPut(f, k, v) == [x \in (DOMAIN f) \cup {k} |-> IF x = k THEN v ELSE f[x]]
MapDel(f, k) == [x \in (DOMAIN f) \ {k} |-> f[x]]

EmptyBiMap == [kv |-> EmptyMap, vk |-> EmptyMap]

getByKey(m, k) == IF k \in DOMAIN m.kv THEN m.kv[k] ELSE NoEntry

deleteByKey(m, k) ==
    IF k \in DOMAIN m.kv
    THEN [kv |-> MapDel(m.kv, k), vk |-> MapDel(m.vk, m.kv[k])]
    ELSE m

deleteByValue(m, v) ==
    IF v \in DOMAIN m.vk
    THEN [kv |-> MapDel(m.kv, m.vk[v]), vk |-> MapDel(m.vk, v)]
    ELSE m

\* setByKey that leaves the key the value had
setByKeyKeepValue(m, k, v) ==
    LET m1 == deleteByKey(m, k)
    IN  [kv |-> MapPut(m1.kv, k, v), vk |-> MapPut(m1.vk, v, k)]

setByKey(m, k, v) ==
    LET m1 == deleteByKey(m, k)
        m2 == deleteByValue(m1, v)
    IN  [kv |-> MapPut(m2.kv, k, v), vk |-> MapPut(m2.vk, v, k)]

getByValue(m, v) == IF v \in DOMAIN m.vk THEN m.vk[v] ELSE Undef

setByValue(m, v, k) ==
    LET m1 == deleteByValue(m, v)
        m2 == deleteByKey(m1, k)
    IN  [kv |-> MapPut(m2.kv, k, v), vk |-> MapPut(m2.vk, v, k)]

(***************************************************************************)
(* The registry as a value R = [entries, mapId, err, ret]: the operators   *)
(* below are the synchronous methods; err latches a thrown exception (the  *)
(* rest of the call is skipped, what was assigned before stays assigned),  *)
(* ret is the entry a call returns.                                        *)
(***************************************************************************)
AllCols == {"id", "key", "value", "join"}

NewEntry(t) ==
    [table |-> t,
     data |-> [c \in AllCols |-> Undef],
     dirty |-> [c \in AllCols |-> FALSE],
     rel |-> NoEntry,
     hasRels |-> FALSE,
     rels |-> <<>>,
     relDirty |-> FALSE,
     initialized |-> FALSE,
     remove |-> FALSE,
     list |-> [defined |-> FALSE, items |-> <<>>],
     listDirty |-> FALSE]

\* EntryRegistry.create
create(R, t) ==
    IF R.err THEN R
    ELSE [R EXCEPT !.entries = Append(@, NewEntry(t)),
                   !.ret = Len(R.entries) + 1]

\* EntryRegistry.findAll
findAll(es, t) == SelectSeq([i \in 1..Len(es) |-> i], LAMBDA i : es[i].table = t)

\* EntryRegistry.findById
findById(R, t, id) == IF id # Undef THEN getByKey(R.mapId[t], id) ELSE NoEntry

\* EntryRegistry.registerId
registerId(R, e) ==
    LET t == R.entries[e].table
        id == R.entries[e].data["id"]
        oldEntry == getByKey(R.mapId[t], id)
    IN  IF id # Undef
        THEN IF oldEntry # NoEntry /\ oldEntry # e
             THEN [R EXCEPT !.err = TRUE]
             ELSE [R EXCEPT !.mapId[t] = setByKey(@, id, e)]
        ELSE [R EXCEPT !.mapId[t] = deleteByValue(@, e)]

\* EntryPropertySingleValue.value (setter)
setValue(R, e, c, v) ==
    IF R.err \/ c \notin ColumnSet(R.entries[e].table) THEN R
    ELSE LET R1 == [R EXCEPT !.entries[e].dirty[c] = @ \/ R.entries[e].data[c] # v,
                             !.entries[e].data[c] = v]
         IN  IF IsIdColumn(c) THEN registerId(R1, e) ELSE R1

RECURSIVE setEach(_, _, _, _)
\* entries.map((entry) => entry.property(c)).forEach((prop) => (prop.value = v))
setEach(R, fs, c, v) ==
    IF fs = <<>> \/ R.err THEN R
    ELSE setEach(setValue(R, Head(fs), c, v), Tail(fs), c, v)

RECURSIVE setFromEach(_, _, _, _)
\* entries.forEach((entry) => (sourceProperty.value = entry.property(c).value))
setFromEach(R, e, fs, c) ==
    IF fs = <<>> \/ R.err THEN R
    ELSE setFromEach(setValue(R, e, sourceColumn, R.entries[Head(fs)].data[c]),
                     e, Tail(fs), c)

\* EntryPropertyMultiRelation.unbind
unbindMulti(R, e) ==
    IF owner = "source" THEN setValue(R, e, sourceColumn, Undef)
    ELSE setEach(R, R.entries[e].rels, foreignColumn, Undef)

\* EntryPropertyMultiRelation.bind
bindMulti(R, e) ==
    IF owner = "source" THEN setFromEach(R, e, R.entries[e].rels, foreignColumn)
    ELSE setEach(R, R.entries[e].rels, foreignColumn, R.entries[e].data[sourceColumn])

\* EntryPropertySingleRelation.unbind without the branch of owner = foreign
unbindSourceOnly(R, e) ==
    IF R.err \/ relationColumns(R.entries[e].table) = <<>> THEN R
    ELSE IF owner = "source" THEN setValue(R, e, sourceColumn, Undef)
    ELSE R

\* EntryPropertySingleRelation.unbind (the property of a collection column is
\* an EntryPropertyMultiRelation)
unbind(R, e) ==
    LET f == R.entries[e].rel
    IN  IF R.err \/ relationColumns(R.entries[e].table) = <<>> THEN R
        ELSE IF schema.collection /\ R.entries[e].table = "T1" THEN unbindMulti(R, e)
        ELSE IF owner = "source" THEN setValue(R, e, sourceColumn, Undef)
        ELSE IF f # NoEntry THEN setValue(R, f, foreignColumn, Undef)
        ELSE R

\* EntryPropertySingleRelation.bind without the branch of owner = foreign
bindSourceOnly(R, e) ==
    LET f == R.entries[e].rel
    IN  IF R.err \/ relationColumns(R.entries[e].table) = <<>> THEN R
        ELSE IF owner = "source"
             THEN setValue(R, e, sourceColumn,
                           IF f # NoEntry THEN R.entries[f].data[foreignColumn] ELSE Undef)
        ELSE R

\* EntryPropertySingleRelation.bind (Entry.bind for the one relation column;
\* the property of a collection column is an EntryPropertyMultiRelation)
bind(R, e) ==
    LET f == R.entries[e].rel
    IN  IF R.err \/ relationColumns(R.entries[e].table) = <<>> THEN R
        ELSE IF schema.collection /\ R.entries[e].table = "T1" THEN bindMulti(R, e)
        ELSE IF owner = "source"
             THEN setValue(R, e, sourceColumn,
                           IF f # NoEntry THEN R.entries[f].data[foreignColumn] ELSE Undef)
        ELSE IF f # NoEntry
             THEN setValue(R, f, foreignColumn, R.entries[e].data[sourceColumn])
        ELSE R

(***************************************************************************)
(* A value object is [base, relKind, rel]: base maps the base keys the     *)
(* object has to their values, relKind tells whether the object has the    *)
(* key "relation" ("absent"), has it as undefined ("undefined") or as a    *)
(* nested object ("object", whose base keys are rel).  For a collection     *)
(* column the nested value is a list of objects ("list", whose base keys    *)
(* are the elements of rels).                                               *)
(***************************************************************************)
Obj(b) == [base |-> b, relKind |-> "absent", rel |-> EmptyMap]
ObjRel(b, r) == [base |-> b, relKind |-> "object", rel |-> r]
ObjNoRel(b) == [base |-> b, relKind |-> "undefined", rel |-> EmptyMap]
ObjList(b, rs) == [base |-> b, relKind |-> "list", rel |-> EmptyMap, rels |-> rs]

RECURSIVE setBaseValues(_, _, _, _)
\* Entry.value (setter), the base properties in column order
setBaseValues(R, e, b, cols) ==
    IF cols = <<>> THEN R
    ELSE LET c == Head(cols)
             R1 == IF c \in DOMAIN b THEN setValue(R, e, c, b[c]) ELSE R
         IN  setBaseValues(R1, e, b, Tail(cols))

\* EntryRegistry.instantiate of an object without a relation key
instantiateIn(R, t, b) ==
    LET id == IF "id" \in DOMAIN b THEN b["id"] ELSE Undef
        found == findById(R, t, id)
        R1 == IF found # NoEntry THEN [R EXCEPT !.ret = found] ELSE create(R, t)
    IN  IF R.err THEN R
        ELSE [setBaseValues(R1, R1.ret, b, baseColumns(t)) EXCEPT !.ret = R1.ret]

\* EntryRegistry.instantiate of an object of the foreign table of T1.relation
instantiateForeign(R, b) == instantiateIn(R, "T2", b)

RECURSIVE instantiateEach(_, _, _)
\* value.map((item) => this.registry.instantiate(foreignTable, item)); ret is the list
instantiateEach(R, rs, acc) ==
    IF R.err THEN R
    ELSE IF rs = <<>> THEN [R EXCEPT !.ret = acc]
    ELSE With(instantiateForeign(R, Head(rs)),
              LAMBDA R1 : instantiateEach(R1, Tail(rs), Append(acc, R1.ret)))

\* isEntriesDirty
isEntriesDirty(es, has1, fs1, has2, fs2) ==
    \/ has1 # has2
    \/ Len(fs1) # Len(fs2)
    \/ \E i \in 1..Len(fs1) : es[fs1[i]].data["id"] # es[fs2[i]].data["id"]

\* EntryPropertyMultiRelation.value (setter)
setMultiRelation(R, e, v) ==
    With(unbind(R, e),
         LAMBDA R1 :
            With(IF v.relKind = "list" THEN instantiateEach(R1, v.rels, <<>>)
                 ELSE [R1 EXCEPT !.ret = <<>>],
                 LAMBDA R2 :
                    IF R2.err THEN R2
                    ELSE bind([R2 EXCEPT
                                !.entries[e].relDirty =
                                    @ \/ isEntriesDirty(R2.entries, R.entries[e].hasRels,
                                                        R.entries[e].rels,
                                                        v.relKind = "list", R2.ret),
                                !.entries[e].rels = R2.ret,
                                !.entries[e].hasRels = (v.relKind = "list"),
                                !.ret = NoEntry], e)))

\* EntryPropertySingleRelation.value (setter) without the call of bind
setRelationNoBind(R, e, v) ==
    With(IF v.relKind = "object"
         THEN instantiateIn(R, foreignTable(R.entries[e].table), v.rel)
         ELSE [R EXCEPT !.ret = NoEntry],
         LAMBDA R1 :
            IF R.err \/ R1.err THEN R1
            ELSE IF R1.entries[e].rel # R1.ret
                 THEN With(unbind([R1 EXCEPT !.entries[e].relDirty = TRUE], e),
                           LAMBDA R2 :
                              IF R2.err THEN R2
                              ELSE [R2 EXCEPT !.entries[e].rel = R1.ret])
            ELSE R1)

\* EntryPropertySingleRelation.value (setter)
setRelation(R, e, v) ==
    IF schema.collection /\ R.entries[e].table = "T1" THEN setMultiRelation(R, e, v)
    ELSE
    With(IF v.relKind = "object"
         THEN instantiateIn(R, foreignTable(R.entries[e].table), v.rel)
         ELSE [R EXCEPT !.ret = NoEntry],
         LAMBDA R1 :
            IF R.err \/ R1.err THEN R1
            ELSE IF R1.entries[e].rel # R1.ret
                 THEN With(unbind([R1 EXCEPT !.entries[e].relDirty = TRUE], e),
                           LAMBDA R2 :
                              bind(IF R2.err THEN R2
                                   ELSE [R2 EXCEPT !.entries[e].rel = R1.ret], e))
            ELSE R1)

\* Entry.value (setter)
setEntryValue(R, e, v) ==
    LET t == R.entries[e].table
    IN  IF R.err THEN R
        ELSE With(setBaseValues(R, e, v.base, baseColumns(t)),
                  LAMBDA R1 :
                     IF relationColumns(t) # <<>> /\ v.relKind # "absent"
                     THEN setRelation(R1, e, v)
                     ELSE R1)

\* EntryRegistry.instantiate without the lookup: this.create(table) always
instantiateAlwaysCreate(R, t, v) ==
    LET R1 == create(R, t)
    IN  IF R.err THEN R
        ELSE [setEntryValue(R1, R1.ret, v) EXCEPT !.ret = R1.ret]

\* EntryRegistry.instantiate
instantiate(R, t, v) ==
    LET id == IF "id" \in DOMAIN v.base THEN v.base["id"] ELSE Undef
        found == findById(R, t, id)
        R1 == IF found # NoEntry THEN [R EXCEPT !.ret = found] ELSE create(R, t)
    IN  IF R.err THEN R
        ELSE [setEntryValue(R1, R1.ret, v) EXCEPT !.ret = R1.ret]

\* Entry.value (getter) of an entry without its relation
baseValue(es, e) == [c \in ColumnSet(es[e].table) |-> es[e].data[c]]

\* Entry.dirty (setter)
setDirty(R, e, d) ==
    [R EXCEPT !.entries[e].dirty = [c \in AllCols |-> d /\ c \in ColumnSet(R.entries[e].table)],
              !.entries[e].relDirty = d /\ relationColumns(R.entries[e].table) # <<>>]

(***************************************************************************)
(* The store (the SQL execution capability).  id and join are integer      *)
(* columns, key and value are text columns; an integer column accepts a    *)
(* number or its decimal string and returns a number.                      *)
(***************************************************************************)
IsIntColumn(c) == c \in {"id", "join"}

DbValue(c, v) ==
    IF v \in {Undef, Null} THEN Null
    ELSE IF IsIntColumn(c) THEN NumName[NumIndex(v)]
    ELSE v

DbEq(c, stored, v) ==
    /\ stored # Null
    /\ v \notin {Undef, Null}
    /\ IF IsIntColumn(c)
       THEN v \in Nums \cup Strs /\ NumIndex(stored) = NumIndex(v)
       ELSE stored = v

\* the row k of table t as the store returns it (RETURNING / SELECT of the base columns)
DbRow(st, t, k) ==
    [c \in ColumnSet(t) |-> IF c = "id" THEN NumName[k] ELSE st[t][k][c]]

\* a condition of a filter: eq, ne, gt, gte, lt, lte (key, value), includes
\* (key, values), and, or (conditions)
Cond(o, k, vs) == [operator |-> o, key |-> k, values |-> vs, conditions |-> <<>>]

Group(o, cs) == [operator |-> o, key |-> Undef, values |-> <<>>, conditions |-> cs]

\* the comparison of a stored value with a value, as the store evaluates it:
\* a comparison with NULL is not true, integers compare by value, text by
\* its order
DbCompare(o, c, stored, vs) ==
    LET Texts == <<"ka", "kb", "kc", "va", "vb">>
        rank(v) == IF IsIntColumn(c) THEN NumIndex(v)
                   ELSE CHOOSE i \in DOMAIN Texts : Texts[i] = v
    IN /\ stored # Null
       /\ IF o = "in" THEN \E i \in DOMAIN vs : rank(stored) = rank(vs[i])
          ELSE LET a == rank(stored)
                   b == rank(vs[1])
               IN CASE o = "eq" -> a = b
                    [] o = "ne" -> a # b
                    [] o = "gt" -> a > b
                    [] o = "gte" -> a >= b
                    [] o = "lt" -> a < b
                    [] o = "lte" -> a <= b

RECURSIVE buildFilterFlat(_)
\* buildFilter with a nested group built into the query of its parent
buildFilterFlat(g) ==
    IF g.conditions = <<>> THEN <<>>
    ELSE LET c == g.conditions[1]
             rest == buildFilterFlat([g EXCEPT !.conditions = Tail(@)])
         IN IF c.operator \in {"and", "or"}
            THEN buildFilterFlat(c) \o rest
            ELSE <<[bool |-> g.operator, cond |-> c, wheres |-> <<>>]>> \o rest

RECURSIVE buildFilter(_)
\* buildFilter: the where clauses added to the query, each with the connector
\* of its group (orWhere, andWhere); a nested group is a wrapped clause
buildFilter(g) ==
    IF g.conditions = <<>> THEN <<>>
    ELSE LET c == g.conditions[1]
         IN <<[bool |-> g.operator, cond |-> c,
               wheres |-> IF c.operator \in {"and", "or"} THEN buildFilter(c) ELSE <<>>]>>
            \o buildFilter([g EXCEPT !.conditions = Tail(@)])

RECURSIVE DbWhere(_, _, _)
\* the where clauses ws as the store evaluates them on a row of t: the
\* connector of the first clause is dropped, AND binds before OR, a wrapped
\* clause is parenthesised
DbWhere(ws, t, row) ==
    LET holds(i) == IF ws[i].cond.operator \in {"and", "or"}
                    THEN DbWhere(ws[i].wheres, t, row)
                    ELSE DbCompare(ws[i].cond.operator, ws[i].cond.key,
                                   row[ws[i].cond.key], ws[i].cond.values)
        starts(i) == i = 1 \/ ws[i].bool = "or"
    IN ws = <<>>
       \/ \E i \in DOMAIN ws :
            /\ starts(i)
            /\ \A j \in i..Len(ws) :
                  (\A k \in (i + 1)..j : ~starts(k)) => holds(j)

NoWhere == [col |-> "none", vals |-> {}]

\* QueryFind.filter: the condition of the find is and(condition)
filter(g) == [col |-> "filter", vals |-> {}, tree |-> Group("and", <<g>>)]

\* the ids of the rows of t a where clause selects
DbMatch(st, t, w) ==
    IF w.col = "none" THEN 1..Len(st[t])
    ELSE IF w.col = "filter"
    THEN {k \in 1..Len(st[t]) : DbWhere(buildFilter(w.tree), t, DbRow(st, t, k))}
    ELSE {k \in 1..Len(st[t]) : \E v \in w.vals : DbEq(w.col, DbRow(st, t, k)[w.col], v)}

\* INSERT INTO t (changes): the new row gets the next serial id
DbInsert(st, t, changes) ==
    [st EXCEPT ![t] = Append(@,
        [c \in {"key", "value", "join"} |->
            IF c \in DOMAIN changes THEN DbValue(c, changes[c]) ELSE Null])]

\* UPDATE t SET changes WHERE w
DbUpdate(st, t, changes, w) ==
    [st EXCEPT ![t] = [k \in 1..Len(st[t]) |->
        IF k \in DbMatch(st, t, w)
        THEN [c \in {"key", "value", "join"} |->
                IF c \in DOMAIN changes THEN DbValue(c, changes[c]) ELSE st[t][k][c]]
        ELSE st[t][k]]]

\* getRawSingleObject / createRaw of a row of the store
createRaw(row) == Obj([c \in DOMAIN row |-> getRawSingleValue(row[c])])

(***************************************************************************)
(* flushBase                                                               *)
(***************************************************************************)
\* flushBase, changeList: the dirty base properties that are neither id nor generated
changeList(es, e) ==
    {c \in ColumnSet(es[e].table) :
        es[e].dirty[c] /\ ~IsIdColumn(c) /\ ~IsGenerated(c)}

\* flushBase, changes: prop.value ?? null
changes(es, e) ==
    [c \in changeList(es, e) |->
        IF es[e].data[c] = Undef THEN Null ELSE es[e].data[c]]

\* flushBase with the statement chosen by entry.initialized instead of the id
statementByInitialized(es, e) ==
    IF es[e].initialized
    THEN [kind |-> "update", table |-> es[e].table, entry |-> e,
          changes |-> changes(es, e),
          where |-> [col |-> "id", vals |-> {es[e].data["id"]}],
          returning |-> baseColumns(es[e].table)]
    ELSE [kind |-> "insert", table |-> es[e].table, entry |-> e,
          changes |-> changes(es, e), where |-> NoWhere,
          returning |-> baseColumns(es[e].table)]

\* flushBase, the statement built for an entry with a non-empty changeList
statement(es, e) ==
    IF es[e].data["id"] # Undef
    THEN [kind |-> "update", table |-> es[e].table, entry |-> e,
          changes |-> changes(es, e),
          where |-> [col |-> "id", vals |-> {es[e].data["id"]}],
          returning |-> baseColumns(es[e].table)]
    ELSE [kind |-> "insert", table |-> es[e].table, entry |-> e,
          changes |-> changes(es, e), where |-> NoWhere,
          returning |-> baseColumns(es[e].table)]

\* the store after a write statement
DbExec(st, s) ==
    IF s.kind = "insert" THEN DbInsert(st, s.table, s.changes)
    ELSE IF s.kind = "update" THEN DbUpdate(st, s.table, s.changes, s.where)
    ELSE st

\* the rows a write statement returns (ids, in id order)
DbReturned(st, s) ==
    IF s.kind = "insert" THEN {Len(st[s.table]) + 1}
    ELSE DbMatch(st, s.table, s.where)

RECURSIVE applyRows(_, _, _, _, _)
\* flushBase: rows.map(createRaw).forEach((raw) => (entry.value = raw))
applyRows(R, e, st, t, ks) ==
    IF ks = {} THEN R
    ELSE LET k == CHOOSE x \in ks : \A y \in ks : x <= y
         IN  applyRows(setEntryValue(R, e, createRaw(DbRow(st, t, k))), e, st, t, ks \ {k})

\* flushBase after the await: the returned rows are assigned, the entry is clean
flushBaseDone(R, e, st, s) ==
    With(applyRows(R, e, DbExec(st, s), s.table, DbReturned(st, s)),
         LAMBDA R1 :
            IF R1.err THEN R1
            ELSE [setDirty(R1, e, FALSE) EXCEPT !.entries[e].initialized = TRUE])

Reg == [entries |-> entries, mapId |-> mapId, err |-> FALSE, ret |-> NoEntry]

(***************************************************************************)
(* Inputs of the operations                                                *)
(***************************************************************************)
InIds == {"n1"}
Absent == "-"

\* the object with the base keys id, key, value that are not Absent
Build(i, k, v) ==
    LET pick == [c \in {"id", "key", "value"} |->
                    IF c = "id" THEN i ELSE IF c = "key" THEN k ELSE v]
    IN  [c \in {x \in {"id", "key", "value"} : pick[x] # Absent} |-> pick[c]]

\* a nested object of the foreign table: a new one (no id), or one naming row 1
NestedInputs == {Build(Absent, "kb", "vb"), Build("n1", "kb", Absent)}

\* OptionalOf<TypeOf<P>>: key is required, the generated id is optional
InsertInputs(t) ==
    IF t = "T1"
    THEN {Obj(Build(Absent, "ka", "va")), Obj(Build(Absent, "ka", Absent))}
         \cup {ObjRel(Build(Absent, "ka", "va"), r) : r \in NestedInputs}
    ELSE {Obj(Build(Absent, "ka", "va"))}

\* Partial<OptionalOf<TypeOf<P>>>: every key is optional
SaveInputs(t) ==
    IF t = "T1"
    THEN {Obj(Build(i, k, Absent)) : i \in {Absent, "n1"}, k \in {Absent, "kc"}}
         \cup {Obj(Build("n1", k, "vc")) : k \in {Absent, "kc"}}
         \cup {ObjRel(Build("n1", k, Absent), r) : k \in {Absent, "kc"}, r \in NestedInputs}
    ELSE {Obj(Build(i, "kc", Absent)) : i \in {Absent, "n1"}}

FindFilters == {NoWhere} \cup {[col |-> "id", vals |-> {i}] : i \in InIds}

(***************************************************************************)
(* The operations                                                          *)
(***************************************************************************)
NoOp ==
    [kind |-> "none", table |-> "T1", input |-> Obj(EmptyMap), root |-> NoEntry,
     where |-> NoWhere, found |-> <<>>, ok |-> TRUE, result |-> <<>>]

\* Entry.value (getter)
entryValue(es, e) ==
    [base |-> baseValue(es, e),
     hasRel |-> es[e].rel # NoEntry,
     rel |-> IF es[e].rel # NoEntry THEN baseValue(es, es[e].rel) ELSE EmptyMap,
     hasRels |-> es[e].hasRels,
     rels |-> [i \in 1..Len(es[e].rels) |-> baseValue(es, es[e].rels[i])]]

Idle == pc = "idle" /\ wait = EmptyMap /\ frames = <<>>

Commit(R) == /\ entries' = R.entries
             /\ mapId' = R.mapId
             /\ thrown' = R.err

\* the operation ends: it resolves with the root's value or rejects
Finish(R, o) ==
    /\ Commit(R)
    /\ pc' = "done"
    /\ op' = [o EXCEPT !.ok = ~R.err,
                       !.result = IF R.err THEN <<>>
                                  ELSE IF o.kind = "find"
                                       THEN [i \in 1..Len(o.found) |-> entryValue(R.entries, o.found[i])]
                                       ELSE <<entryValue(R.entries, o.root)>>]

\* the operation's promise is settled; the next query of the caller gets a
\* new EntryRegistry (DataSource.from)
Return ==
    /\ pc = "done"
    /\ wait = EmptyMap
    /\ pc' = "idle"
    /\ op' = NoOp
    /\ prev' = op
    /\ log' = <<>>
    /\ thrown' = FALSE
    /\ entries' = <<>>
    /\ mapId' = [t \in Tables |-> EmptyBiMap]
    /\ UNCHANGED <<meta, owner, schema, frames, trx, store, wait, nops>>

\* QueryInsert.run up to the call of flush
Insert(t, v) ==
    LET R1 == create(Reg, t)
        e == R1.ret
        o == [NoOp EXCEPT !.kind = "insert", !.table = t, !.input = v, !.root = e]
    IN  /\ Idle
        /\ nops < MaxOps
        /\ nops' = nops + 1
        /\ \E R3 \in {setValue(setEntryValue(R1, e, v), e, "id", Undef)} :
              IF R3.err THEN Finish(R3, o)
              ELSE Commit(R3) /\ op' = o /\ pc' = "base1"
        /\ UNCHANGED <<meta, owner, schema, frames, trx, store, log, wait, prev>>

\* QuerySave.run up to the call of flush
Save(t, v) ==
    /\ Idle
    /\ nops < MaxOps
    /\ nops' = nops + 1
    /\ \E R1 \in {instantiate(Reg, t, v)} :
          LET o == [NoOp EXCEPT !.kind = "save", !.table = t, !.input = v,
                                !.root = R1.ret]
          IN  IF R1.err THEN Finish(R1, o)
              ELSE Commit(R1) /\ op' = o /\ pc' = "base1"
    /\ UNCHANGED <<meta, owner, schema, frames, trx, store, log, wait, prev>>

RECURSIVE spawn(_, _, _)
\* flush: the statements the flushes of the foreign entries issue before
\* they suspend; fs is what is left of findAll(foreignTable)
spawn(es, fs, acc) ==
    IF fs = <<>> THEN acc
    ELSE LET f == Head(fs)
         IN  spawn(es, Tail(fs),
                   IF changeList(es, f) # {} THEN Append(acc, statement(es, f)) ELSE acc)

foreignEntries(es, e) ==
    IF relationColumns(es[e].table) # <<>>
    THEN findAll(es, foreignTable(es[e].table))
    ELSE <<>>

\* flush after the first flushBase: bind, then the foreign entries are
\* flushed concurrently (Promise.all)
relations(R, e) ==
    \E R1 \in {bind(R, e)} :
    \E ss \in {spawn(R1.entries, foreignEntries(R1.entries, e), <<>>)} :
        /\ Commit(R1)
        /\ log' = log \o ss
        /\ wait' = [f \in {ss[i].entry : i \in 1..Len(ss)} |->
                        CHOOSE s \in {ss[i] : i \in 1..Len(ss)} : s.entry = f]
        /\ pc' = "relations"

\* flush / flushBase of the root entry up to the await of its statement,
\* or through to the next step when nothing is dirty
FlushBase ==
    /\ pc \in {"base1", "base2"}
    /\ wait = EmptyMap
    /\ IF changeList(entries, op.root) # {}
       THEN /\ log' = Append(log, statement(entries, op.root))
            /\ pc' = IF pc = "base1" THEN "wait1" ELSE "wait2"
            /\ UNCHANGED <<meta, owner, schema, frames, trx, entries, mapId, thrown, store, op, wait, prev, nops>>
       ELSE IF pc = "base1"
            THEN relations(Reg, op.root) /\ UNCHANGED <<meta, owner, schema, frames, trx, store, op, prev, nops>>
            ELSE Finish(Reg, op) /\ UNCHANGED <<meta, owner, schema, frames, trx, store, log, wait, prev, nops>>

\* flushBase of the root entry after the await: the store has executed the
\* statement and returned the rows
FlushBaseReturn ==
    LET s == log[Len(log)]
    IN  /\ pc \in {"wait1", "wait2"}
        /\ store' = DbExec(store, s)
        /\ \E R1 \in {flushBaseDone(Reg, op.root, store, s)} :
              IF R1.err \/ pc = "wait2"
              THEN Finish(R1, op) /\ UNCHANGED <<meta, owner, schema, frames, trx, log, wait, prev, nops>>
              ELSE relations(R1, op.root) /\ UNCHANGED <<meta, owner, schema, frames, trx, op, prev, nops>>

\* flush of a foreign entry after the await of its statement; its second
\* flushBase finds it clean
ForeignReturn(f) ==
    LET s == wait[f]
    IN  /\ f \in DOMAIN wait
        /\ store' = DbExec(store, s)
        /\ wait' = MapDel(wait, f)
        /\ \E R1 \in {flushBaseDone(Reg, f, store, s)} :
              IF R1.err /\ pc = "relations"
              THEN Finish(R1, op)
              ELSE /\ entries' = R1.entries
                   /\ mapId' = R1.mapId
                   /\ thrown' = (thrown \/ R1.err)
                   /\ UNCHANGED <<op, pc>>
        /\ UNCHANGED <<meta, owner, schema, frames, trx, log, prev, nops>>

\* flush after Promise.all has resolved, without the second entry.bind()
JoinNoBind ==
    /\ pc = "relations"
    /\ wait = EmptyMap
    /\ pc' = "base2"
    /\ UNCHANGED <<meta, owner, schema, frames, trx, entries, mapId, thrown, store, log, op, wait, prev, nops>>

\* flush after Promise.all has resolved: bind again, then flushBase once more
Join ==
    /\ pc = "relations"
    /\ wait = EmptyMap
    /\ Commit(bind(Reg, op.root))
    /\ pc' = "base2"
    /\ UNCHANGED <<meta, owner, schema, frames, trx, store, log, op, wait, prev, nops>>

(***************************************************************************)
(* QueryFind                                                               *)
(***************************************************************************)
SetToSeq(ks) ==
    LET n == Cardinality(ks)
    IN  [i \in 1..n |-> CHOOSE k \in ks : Cardinality({j \in ks : j < k}) = i - 1]

RECURSIVE load(_, _, _, _, _)
\* QueryFind.execute: rows.map(createRaw).map(instantiate); ret is the list of entries
load(R, st, t, ks, acc) ==
    IF ks = <<>> THEN [R EXCEPT !.ret = acc]
    ELSE With(instantiate(R, t, createRaw(DbRow(st, t, Head(ks)))),
              LAMBDA R1 : load(R1, st, t, Tail(ks), Append(acc, R1.ret)))

RECURSIVE clean(_, _)
\* QueryFind.execute: entry.dirty = false, entry.initialized = true
clean(R, es) ==
    IF es = <<>> THEN R
    ELSE clean([setDirty(R, Head(es), FALSE) EXCEPT !.entries[Head(es)].initialized = TRUE],
               Tail(es))

\* QueryFind.execute up to the resolution of the relations
loadRows(R, st, t, w) ==
    With(load(R, st, t, SetToSeq(DbMatch(st, t, w)), <<>>),
         LAMBDA R1 : IF R1.err THEN R1 ELSE [clean(R1, R1.ret) EXCEPT !.ret = R1.ret])

\* the filter of the batched find of the foreign table: includes(foreignColumn, lookups)
lookups(es, found) ==
    [col |-> foreignColumn,
     vals |-> {es[found[i]].data[sourceColumn] : i \in 1..Len(found)} \ {Undef}]

RECURSIVE attachUnfiltered(_, _, _)
\* QueryFind.execute with the foreign entries not filtered by the join value
attachUnfiltered(R, found, fs) ==
    IF found = <<>> \/ R.err THEN R
    ELSE LET e == Head(found)
             v == IF schema.collection
                  THEN ObjList(EmptyMap, [i \in 1..Len(fs) |->
                                            baseValue(R.entries, fs[i])])
                  ELSE IF fs = <<>> THEN ObjNoRel(EmptyMap)
                  ELSE ObjRel(EmptyMap, baseValue(R.entries, fs[1]))
         IN  attachUnfiltered(setRelation(R, e, v), Tail(found), fs)

RECURSIVE attach(_, _, _)
\* QueryFind.execute: every entry gets the first foreign entry whose join
\* value matches, or all of them when the column is a collection
attach(R, found, fs) ==
    IF found = <<>> \/ R.err THEN R
    ELSE LET e == Head(found)
             matched == SelectSeq(fs, LAMBDA f :
                            R.entries[f].data[foreignColumn] = R.entries[e].data[sourceColumn])
             v == IF schema.collection
                  THEN ObjList(EmptyMap, [i \in 1..Len(matched) |->
                                            baseValue(R.entries, matched[i])])
                  ELSE IF matched = <<>> THEN ObjNoRel(EmptyMap)
                  ELSE ObjRel(EmptyMap, baseValue(R.entries, matched[1]))
         IN  attach(setRelation(R, e, v), Tail(found), fs)

\* QueryCollection.find / QueryFind.execute up to the await of the query
Find(t, w) ==
    /\ Idle
    /\ nops < MaxOps
    /\ nops' = nops + 1
    /\ op' = [NoOp EXCEPT !.kind = "find", !.table = t, !.where = w]
    /\ log' = Append(log, [kind |-> "select", table |-> t, entry |-> NoEntry,
                           changes |-> EmptyMap, where |-> w,
                           returning |-> baseColumns(t)])
    /\ pc' = "find1"
    /\ UNCHANGED <<meta, owner, schema, frames, trx, entries, mapId, thrown, store, wait, prev>>

\* QueryFind.execute after the await: the rows are loaded, then the foreign
\* table is searched for the join values of the loaded entries
FindRows ==
    /\ pc = "find1"
    /\ \E R1 \in {loadRows(Reg, store, op.table, op.where)} :
        LET o == [op EXCEPT !.found = R1.ret]
        IN  IF R1.err \/ relationColumns(op.table) = <<>>
            THEN Finish(R1, o) /\ UNCHANGED log
            ELSE /\ Commit(R1)
                 /\ op' = o
                 /\ log' = Append(log, [kind |-> "select", table |-> "T2", entry |-> NoEntry,
                                        changes |-> EmptyMap,
                                        where |-> lookups(R1.entries, R1.ret),
                                        returning |-> baseColumns("T2")])
                 /\ pc' = "find2"
    /\ UNCHANGED <<meta, owner, schema, frames, trx, store, wait, prev, nops>>

\* QueryFind.execute with the found foreign entries not assigned to the relation
FindRelationsNoAttach ==
    /\ pc = "find2"
    /\ \E R1 \in {loadRows(Reg, store, "T2", log[Len(log)].where)} :
          Finish(R1, op)
    /\ UNCHANGED <<meta, owner, schema, frames, trx, store, log, wait, prev, nops>>

\* QueryFind.execute, the relation column after the find of the foreign table
FindRelations ==
    /\ pc = "find2"
    /\ \E R1 \in {loadRows(Reg, store, "T2", log[Len(log)].where)} :
       \E R2 \in {IF R1.err THEN R1 ELSE attach(R1, op.found, R1.ret)} :
          Finish(R2, op)
    /\ UNCHANGED <<meta, owner, schema, frames, trx, store, log, wait, prev, nops>>

(***************************************************************************)
(* The registry used directly                                              *)
(***************************************************************************)
\* EntryRegistry.create
Create(t) ==
    LET R1 == create(Reg, t)
    IN  /\ Idle
        /\ Len(entries) < MaxRegistry
        /\ Commit(R1)
        /\ op' = NoOp
        /\ UNCHANGED <<meta, owner, schema, frames, trx, store, log, pc, wait, prev, nops>>

\* EntryRegistry.findById called by a client; op.root is what it returned
FindById(t, id) ==
    /\ Idle
    /\ op' = [NoOp EXCEPT !.kind = "findById", !.table = t,
                          !.where = [col |-> "id", vals |-> {id}],
                          !.root = findById(Reg, t, id)]
    /\ thrown' = FALSE
    /\ UNCHANGED <<meta, owner, schema, frames, trx, entries, mapId, store, log, pc, wait, prev, nops>>

\* EntryRegistry.instantiate called by a client; op.root is what it returned
Instantiate(t, v) ==
    \E R1 \in {instantiate(Reg, t, v)} :
        /\ Idle
        /\ Len(R1.entries) <= MaxRegistry
        /\ Commit(R1)
        /\ op' = [NoOp EXCEPT !.kind = "instantiate", !.table = t, !.input = v,
                              !.root = R1.ret]
        /\ UNCHANGED <<meta, owner, schema, frames, trx, store, log, pc, wait, prev, nops>>

\* entry.id.value = v
SetId(e, v) ==
    /\ Idle
    /\ e \in 1..Len(entries)
    /\ Commit(setValue(Reg, e, "id", v))
    /\ op' = NoOp
    /\ UNCHANGED <<meta, owner, schema, frames, trx, store, log, pc, wait, prev, nops>>

\* entry.property('relation').value = v (EntryPropertySingleRelation.value)
\* in a registry that holds at most n entries
SetRelationWithin(e, v, n) ==
    /\ Idle
    /\ e \in 1..Len(entries)
    /\ relationColumns(entries[e].table) # <<>>
    /\ \E R1 \in {setRelation(Reg, e, v)} :
           /\ Len(R1.entries) <= n
           /\ Commit(R1)
    /\ op' = [NoOp EXCEPT !.kind = "setRelation", !.root = e]
    /\ UNCHANGED <<meta, owner, schema, frames, trx, store, log, pc, wait, prev, nops>>

SetRelation(e, v) == SetRelationWithin(e, v, MaxLinked)

\* entry.bind()
Bind(e) ==
    /\ Idle
    /\ e \in 1..Len(entries)
    /\ relationColumns(entries[e].table) # <<>>
    /\ Commit(bind(Reg, e))
    /\ op' = [NoOp EXCEPT !.kind = "bind", !.root = e]
    /\ UNCHANGED <<meta, owner, schema, frames, trx, store, log, pc, wait, prev, nops>>

\* isMultiValueDirty without the comparison of the lengths
isMultiValueDirtyPrefix(value1, value2) ==
    \/ value1.defined # value2.defined
    \/ \E i \in DOMAIN value1.items \cap DOMAIN value2.items :
          value1.items[i] # value2.items[i]

\* isMultiValueDirty; a RawMultiValue is undefined or an array
isMultiValueDirty(value1, value2) ==
    \/ value1.defined # value2.defined
    \/ Len(value1.items) # Len(value2.items)
    \/ \E i \in 1..Len(value1.items) : value1.items[i] # value2.items[i]

\* entry.property(c).value = v for an array column c of the entry's table
\* (EntryPropertyMultiValue, the list of the entry)
SetList(e, v) ==
    /\ Idle
    /\ e \in 1..Len(entries)
    /\ entries' = [entries EXCEPT
                     ![e].listDirty = @ \/ isMultiValueDirty(entries[e].list, v),
                     ![e].list = v]
    /\ op' = [NoOp EXCEPT !.kind = "setList", !.root = e]
    /\ UNCHANGED <<meta, owner, schema, frames, trx, mapId, thrown, store, log, pc, wait, prev, nops>>

\* entry.dirty = false: every property of the entry is clean
SetClean(e) ==
    /\ Idle
    /\ e \in 1..Len(entries)
    /\ entries' = [setDirty(Reg, e, FALSE).entries EXCEPT ![e].listDirty = FALSE]
    /\ op' = [NoOp EXCEPT !.kind = "setClean", !.root = e]
    /\ UNCHANGED <<meta, owner, schema, frames, trx, mapId, thrown, store, log, pc, wait, prev, nops>>

\* entry.property(c).value = v for an own base column c
SetColumn(e, c, v) ==
    /\ Idle
    /\ e \in 1..Len(entries)
    /\ c \in ColumnSet(entries[e].table)
    /\ Commit(setValue(Reg, e, c, v))
    /\ op' = [NoOp EXCEPT !.kind = "setColumn", !.root = e]
    /\ UNCHANGED <<meta, owner, schema, frames, trx, store, log, pc, wait, prev, nops>>

(***************************************************************************)
(* flush over a chain of relations.  Every call of flush is a frame        *)
(* [entry, parent, pc, stmt, at]: parent is the frame whose Promise.all    *)
(* awaits it (0 for the call of the operation), pc is where the call is    *)
(* suspended, stmt the statement it awaits, at the number of statements    *)
(* issued when the call rejected.  Continuations of settled promises run   *)
(* before the store answers a statement.                                   *)
(***************************************************************************)
NoStatement == [kind |-> "none"]

Frame(e, p, c, s) == [entry |-> e, parent |-> p, pc |-> c, stmt |-> s, at |-> 0]

RECURSIVE callEach(_, _, _, _, _)
\* fs.map((entry) => flush(connection, entries, entry)): every call runs up
\* to its first await, flushBase issues the statement of a dirty entry
callEach(es, fs, p, lg, fr) ==
    IF fs = <<>> THEN [log |-> lg, frames |-> fr]
    ELSE LET f == Head(fs)
         IN  IF changeList(es, f) # {}
             THEN callEach(es, Tail(fs), p, Append(lg, statement(es, f)),
                           Append(fr, Frame(f, p, "wait1", statement(es, f))))
             ELSE callEach(es, Tail(fs), p, lg,
                           Append(fr, Frame(f, p, "ready1", NoStatement)))

RECURSIVE awaiting(_, _)
\* the call i and the calls that await it, directly or through Promise.all
awaiting(fr, i) == IF i = 0 THEN {} ELSE {i} \cup awaiting(fr, fr[i].parent)

\* the call i rejects, and with it every call that awaits it
reject(fr, i, n) ==
    [j \in DOMAIN fr |->
        IF j \in awaiting(fr, i) /\ fr[j].pc \notin {"done", "failed"}
        THEN [fr[j] EXCEPT !.pc = "failed", !.at = n]
        ELSE fr[j]]

\* Promise.all of the call i has resolved
allDone(fr, i) == \A j \in DOMAIN fr : fr[j].parent = i => fr[j].pc = "done"

\* a continuation of a settled promise is pending
Ready(fr) ==
    \E i \in DOMAIN fr : \/ fr[i].pc = "ready1"
                         \/ fr[i].pc = "relations" /\ allDone(fr, i)

\* the registry and the frames after a step; the operation settles with the
\* call of the root entry
Settle(R, fr) ==
    /\ entries' = R.entries
    /\ mapId' = R.mapId
    /\ frames' = fr
    /\ thrown' = (fr[1].pc = "failed")
    /\ pc' = IF fr[1].pc \in {"done", "failed"} THEN "done" ELSE pc
    /\ op' = IF pc = "cascade" /\ fr[1].pc \in {"done", "failed"}
             THEN [op EXCEPT !.ok = (fr[1].pc = "done"),
                             !.result = IF fr[1].pc = "done"
                                        THEN <<entryValue(R.entries, op.root)>>
                                        ELSE <<>>]
             ELSE op

\* QuerySave.run: flush(this.query, this.entries, entry) up to its first await
FlushCall(e) ==
    /\ Idle
    /\ e \in 1..Len(entries)
    /\ \E c \in {callEach(entries, <<e>>, 0, log, <<>>)} :
          /\ log' = c.log
          /\ frames' = c.frames
    /\ pc' = "cascade"
    /\ op' = [NoOp EXCEPT !.kind = "flush", !.table = entries[e].table, !.root = e]
    /\ UNCHANGED <<meta, owner, schema, trx, entries, mapId, thrown, store, wait, prev, nops>>

\* flush after the first flushBase: entry.bind(), then the foreign entries
\* are flushed concurrently
flushRelations(R, i) ==
    \E R1 \in {bind(R, frames[i].entry)} :
        IF R1.err
        THEN Settle(R1, reject(frames, i, Len(log))) /\ log' = log
        ELSE \E c \in {callEach(R1.entries, foreignEntries(R1.entries, frames[i].entry),
                                i, log, [frames EXCEPT ![i].pc = "relations",
                                                       ![i].stmt = NoStatement])} :
                /\ log' = c.log
                /\ Settle(R1, c.frames)

\* flush of an entry whose first flushBase had nothing to write
Relations(i) ==
    /\ i \in DOMAIN frames
    /\ frames[i].pc = "ready1"
    /\ flushRelations(Reg, i)
    /\ UNCHANGED <<meta, owner, schema, trx, store, wait, prev, nops>>

\* flushBase after the await: the store has executed the statement
StatementReturn(i) ==
    /\ i \in DOMAIN frames
    /\ frames[i].pc \in {"wait1", "wait2"}
    /\ ~Ready(frames)
    /\ store' = DbExec(store, frames[i].stmt)
    /\ \E R1 \in {flushBaseDone(Reg, frames[i].entry, store, frames[i].stmt)} :
          IF R1.err
          THEN Settle(R1, reject(frames, i, Len(log))) /\ log' = log
          ELSE IF frames[i].pc = "wait1" THEN flushRelations(R1, i)
          ELSE /\ Settle(R1, [frames EXCEPT ![i].pc = "done", ![i].stmt = NoStatement])
               /\ log' = log
    /\ UNCHANGED <<meta, owner, schema, trx, wait, prev, nops>>

\* the store rejects the statement: flushBase throws, flush rejects
StatementFails(i) ==
    /\ i \in DOMAIN frames
    /\ frames[i].pc \in {"wait1", "wait2"}
    /\ ~Ready(frames)
    /\ \A j \in DOMAIN frames : frames[j].pc # "failed"
    /\ Settle(Reg, reject(frames, i, Len(log)))
    /\ UNCHANGED <<meta, owner, schema, trx, store, log, wait, prev, nops>>

\* flush after Promise.all has resolved: entry.bind(), then flushBase once more
Resolved(i) ==
    /\ i \in DOMAIN frames
    /\ frames[i].pc = "relations"
    /\ allDone(frames, i)
    /\ \E R1 \in {bind(Reg, frames[i].entry)} :
          IF R1.err
          THEN Settle(R1, reject(frames, i, Len(log))) /\ log' = log
          ELSE IF changeList(R1.entries, frames[i].entry) # {}
          THEN /\ log' = Append(log, statement(R1.entries, frames[i].entry))
               /\ Settle(R1, [frames EXCEPT ![i].pc = "wait2",
                                            ![i].stmt = statement(R1.entries, frames[i].entry)])
          ELSE /\ log' = log
               /\ Settle(R1, [frames EXCEPT ![i].pc = "done"])
    /\ UNCHANGED <<meta, owner, schema, trx, store, wait, prev, nops>>

\* QuerySave.run up to the call of flush: this.entries.instantiate(table, value)
Stage(t, v) ==
    /\ Idle
    /\ \E R1 \in {instantiate(Reg, t, v)} :
          /\ Len(R1.entries) <= MaxCascade
          /\ Commit(R1)
    /\ op' = NoOp
    /\ UNCHANGED <<meta, owner, schema, frames, trx, store, log, pc, wait, prev, nops>>

\* entry.remove = true before the call of flush
MarkRemove(e) ==
    /\ Idle
    /\ e \in 1..Len(entries)
    /\ ~entries[e].remove
    /\ entries' = [entries EXCEPT ![e].remove = TRUE]
    /\ op' = NoOp
    /\ UNCHANGED <<meta, owner, schema, frames, trx, mapId, thrown, store, log, pc, wait, prev, nops>>

\* entry.property('relation').value = v before the call of flush
Link(e, v) == SetRelationWithin(e, v, MaxCascade)

(***************************************************************************)
(* DataSource.transaction.  store is what the connection in use sees: the  *)
(* rows of the transaction while one is open, the committed rows           *)
(* otherwise; no other connection writes while the transaction is open.    *)
(***************************************************************************)
\* DataSource.transaction: knex opens a transaction and hands the callback a
\* Transaction with a new EntryRegistry
Begin ==
    /\ Idle
    /\ trx.state = "none"
    /\ trx' = [state |-> "open", base |-> store, written |-> store]
    /\ entries' = <<>>
    /\ mapId' = [t \in Tables |-> EmptyBiMap]
    /\ UNCHANGED <<meta, owner, schema, frames, thrown, store, log, op, pc, wait, prev, nops>>

\* a query of the Transaction has settled: the next one shares its registry
TrxReturn ==
    /\ pc = "done"
    /\ wait = EmptyMap
    /\ trx.state = "open"
    /\ pc' = "idle"
    /\ op' = NoOp
    /\ prev' = op
    /\ log' = <<>>
    /\ thrown' = FALSE
    /\ UNCHANGED <<meta, owner, schema, frames, trx, entries, mapId, store, wait, nops>>

\* the callback has ended: queries outside the transaction get a new registry
Ended(state, st) ==
    /\ Idle
    /\ trx.state = "open"
    /\ trx' = [trx EXCEPT !.state = state, !.written = store]
    /\ store' = st
    /\ entries' = <<>>
    /\ mapId' = [t \in Tables |-> EmptyBiMap]
    /\ UNCHANGED <<meta, owner, schema, frames, thrown, log, op, pc, wait, prev, nops>>

\* Transaction.commit: trx.commit()
CommitTransaction == Ended("committed", store)

\* Transaction.rollback that leaves the rows of the transaction in the store
RollbackKeepsRows == Ended("rolledback", store)

\* Transaction.rollback: trx.rollback()
RollbackTransaction == Ended("rolledback", trx.base)

(***************************************************************************)
(* Specifications                                                          *)
(***************************************************************************)
(***************************************************************************)
(* Metadata derivation: MetadataRegistry, TableMetadata, ColumnMetadata,   *)
(* RelationColumnMetadata.  A Schema is a finite tree: the metadata set on *)
(* it and, for an object, its properties in declaration order.             *)
(***************************************************************************)
\* a scalar schema with no metadata set; generated holds those of the keys
\* generate, gen, generated that are set to true
Scalar ==
    [entity |-> Absent, table |-> Absent, props |-> <<>>, id |-> FALSE,
     generated |-> {}, nullable |-> FALSE, collection |-> FALSE,
     owner |-> Absent, joinName |-> Absent, reference |-> Absent]

\* number().optional().set('id', true).set('generated', true)
IdSchema ==
    [Scalar EXCEPT !.id = TRUE, !.generated = {"generated"}, !.nullable = TRUE]

\* object(props).set('entity', n)
Entity(n, ps) == [Scalar EXCEPT !.entity = n, !.props = ps]

Prop(k, s) == [key |-> k, schema |-> s]

readProperties(s) == s.props

\* the name read from the key table before the key entity
readEntityTable(s) == IF s.table # Absent THEN s.table ELSE s.entity

readEntity(s) == IF s.entity # Absent THEN s.entity ELSE s.table

readJoinOwner(s) == IF s.owner # Absent THEN s.owner ELSE "source"

readJoinName(s) == s.joinName

\* the owner as the description declares it, an array or not
joinOwnerDeclared(s) == readJoinOwner(s)

\* this.owner: an array of the entity is owned by the other side
joinOwner(s) == IF s.collection THEN "foreign" ELSE readJoinOwner(s)

readReference(s) == IF s.reference # Absent THEN s.reference ELSE "weak"

\* the entity names of the descriptions derived
Names == {"A", "B"}

\* the registry after construction; args are the descriptions the program
\* has called get with, result is the table the last call returned (0: none
\* yet), failed whether it threw
NoMetadata ==
    [storage |-> [n \in Names |-> 0], tables |-> <<>>, stack |-> <<>>,
     result |-> 0, failed |-> FALSE, args |-> <<>>]

\* a ColumnMetadata that is marked declared whatever the constructor is told
ColumnMetadataDeclared(n, s, d) ==
    [name |-> n, schema |-> s, declared |-> TRUE, id |-> s.id,
     generated |-> s.generated # {}, nullable |-> s.nullable, collection |-> s.collection]

\* new ColumnMetadata(table, name, schema, declared)
ColumnMetadata(n, s, d) ==
    [name |-> n, schema |-> s, declared |-> d, id |-> s.id,
     generated |-> s.generated # {}, nullable |-> s.nullable,
     collection |-> s.collection]

\* a TableMetadata when its constructor starts
TableMetadata(n) == [name |-> n, baseColumns |-> <<>>, relationColumns |-> <<>>]

\* a reference to a ColumnMetadata object: the table object and its place
ColumnRef(t, l, i) == [table |-> t, list |-> l, index |-> i]

NoColumn == ColumnRef(0, "none", 0)

\* TableMetadata.id: the first base column marked id (NoColumn: the getter throws)
tableId(tbs, t) ==
    LET I == {i \in DOMAIN tbs[t].baseColumns : tbs[t].baseColumns[i].id}
    IN IF I = {} THEN NoColumn
       ELSE ColumnRef(t, "base", CHOOSE i \in I : \A j \in I : i <= j)

\* TableMetadata.column(name): the first of columns (base, then relation)
column(tbs, t, n) ==
    LET B == {i \in DOMAIN tbs[t].baseColumns : tbs[t].baseColumns[i].name = n}
        R == {i \in DOMAIN tbs[t].relationColumns :
                  tbs[t].relationColumns[i].name = n}
    IN IF B # {} THEN ColumnRef(t, "base", CHOOSE i \in B : \A j \in B : i <= j)
       ELSE IF R # {}
            THEN ColumnRef(t, "relation", CHOOSE i \in R : \A j \in R : i <= j)
            ELSE NoColumn

\* the ColumnMetadata a reference names
deref(tbs, c) ==
    IF c.list = "base" THEN tbs[c.table].baseColumns[c.index]
    ELSE tbs[c.table].relationColumns[c.index]

\* the frame of a TableMetadata constructor: the description, the object under
\* construction, and the property the loop is at
MetaFrame(s, t) == [schema |-> s, table |-> t, at |-> 1]

\* the RelationColumnMetadata constructor from the return of registry.get on,
\* and the push of the new column by the TableMetadata constructor; t is the
\* table under construction, p its property, ft the table registry.get gave
relate(tbs, t, p, ft) ==
    LET s == p.schema
        own == joinOwner(s)
        targetTable == IF own = "source" THEN ft ELSE t
        targetColumn == tableId(tbs, targetTable)
    IN IF targetColumn = NoColumn THEN [ok |-> FALSE, tables |-> tbs]
       ELSE
       LET target == deref(tbs, targetColumn)
           joinColumnName ==
               IF readJoinName(s) # Absent THEN readJoinName(s)
               ELSE tbs[targetTable].name \o "_" \o target.name
           ownerTable == IF own = "source" THEN t ELSE ft
           found == column(tbs, ownerTable, joinColumnName)
           joinSchema ==
               [target.schema EXCEPT !.id = FALSE,
                                     !.generated = @ \ {"generated"},
                                     !.nullable = @ \/ s.nullable]
           newColumn == ColumnMetadata(joinColumnName, joinSchema, FALSE)
           tbs1 == IF found # NoColumn THEN tbs
                   ELSE [tbs EXCEPT ![ownerTable].baseColumns = Append(@, newColumn)]
           ownerColumn ==
               IF found # NoColumn THEN found
               ELSE ColumnRef(ownerTable, "base", Len(tbs1[ownerTable].baseColumns))
           rel ==
               [name |-> p.key, schema |-> s, declared |-> TRUE, id |-> s.id,
                generated |-> s.generated # {}, nullable |-> s.nullable,
                collection |-> s.collection, owner |-> own,
                sourceColumn |-> IF own = "source" THEN ownerColumn ELSE targetColumn,
                foreignColumn |-> IF own = "source" THEN targetColumn ELSE ownerColumn,
                type |-> readReference(s)]
       IN [ok |-> TRUE,
           tables |-> [tbs1 EXCEPT ![t].relationColumns = Append(@, rel)]]

\* an error thrown inside a constructor unwinds every call of get under way
metaThrow(M) == [M EXCEPT !.stack = <<>>, !.result = 0, !.failed = TRUE]

\* the caller's relation column is made once registry.get has returned ft
relateTop(M, ft) ==
    LET f == M.stack[Len(M.stack)]
        r == relate(M.tables, f.table, readProperties(f.schema)[f.at], ft)
    IN IF ~r.ok THEN metaThrow(M)
       ELSE [M EXCEPT !.tables = r.tables, !.stack[Len(M.stack)].at = f.at + 1]

\* MetadataRegistry.get up to the call of the TableMetadata constructor
getNew(M, s) ==
    [M EXCEPT !.tables = Append(@, TableMetadata(readEntity(s))),
              !.stack = Append(@, MetaFrame(s, Len(M.tables) + 1))]

MetaIdle ==
    /\ pc = "idle" /\ entries = <<>> /\ meta.stack = <<>>

MetaUnchanged ==
    UNCHANGED <<owner, schema, frames, trx, entries, mapId, thrown, store, log,
                op, pc, wait, prev, nops>>

\* registry.get(s), called by the program
Get(s) ==
    /\ MetaIdle
    /\ Len(meta.args) < MaxDerive
    /\ LET M == [meta EXCEPT !.args = Append(@, s), !.failed = FALSE, !.result = 0]
           name == readEntity(s)
       IN meta' = IF name = Absent THEN metaThrow(M)
                  ELSE IF M.storage[name] # 0
                       THEN [M EXCEPT !.result = M.storage[name]]
                       ELSE getNew(M, s)
    /\ MetaUnchanged

\* the constructor's loop at a property that names no entity
BaseColumn ==
    /\ meta.stack # <<>>
    /\ LET f == meta.stack[Len(meta.stack)]
       IN /\ f.at <= Len(readProperties(f.schema))
          /\ LET p == readProperties(f.schema)[f.at]
             IN /\ readEntity(p.schema) = Absent
                /\ meta' = [meta EXCEPT
                              !.tables[f.table].baseColumns =
                                  Append(@, ColumnMetadata(p.key, p.schema, TRUE)),
                              !.stack[Len(meta.stack)].at = f.at + 1]
    /\ MetaUnchanged

\* the constructor's loop at a relation whose entity name is in the storage
RelationKnown ==
    /\ meta.stack # <<>>
    /\ LET f == meta.stack[Len(meta.stack)]
       IN /\ f.at <= Len(readProperties(f.schema))
          /\ LET p == readProperties(f.schema)[f.at]
             IN /\ readEntity(p.schema) # Absent
                /\ meta.storage[readEntity(p.schema)] # 0
                /\ meta' = relateTop(meta, meta.storage[readEntity(p.schema)])
    /\ MetaUnchanged

\* the constructor's loop at a relation whose entity name is not in the
\* storage: registry.get constructs the table
RelationDerive ==
    /\ meta.stack # <<>>
    /\ LET f == meta.stack[Len(meta.stack)]
       IN /\ f.at <= Len(readProperties(f.schema))
          /\ LET p == readProperties(f.schema)[f.at]
             IN /\ readEntity(p.schema) # Absent
                /\ meta.storage[readEntity(p.schema)] = 0
                /\ meta' = getNew(meta, p.schema)
    /\ MetaUnchanged

\* registry.get returning the new table without storing it
returnUnstored(M) ==
    LET f == M.stack[Len(M.stack)]
        M1 == [M EXCEPT !.stack = SubSeq(@, 1, Len(@) - 1)]
    IN IF M1.stack = <<>> THEN [M1 EXCEPT !.result = f.table]
       ELSE relateTop(M1, f.table)

\* the constructor returns: registry.get stores the table under its name and
\* returns it, to the relation column that asked for it or to the program
setAfter(M) ==
    LET f == M.stack[Len(M.stack)]
        M1 == [M EXCEPT !.storage[readEntity(f.schema)] = f.table,
                        !.stack = SubSeq(@, 1, Len(@) - 1)]
    IN IF M1.stack = <<>> THEN [M1 EXCEPT !.result = f.table]
       ELSE relateTop(M1, f.table)

Constructed ==
    /\ meta.stack # <<>>
    /\ meta.stack[Len(meta.stack)].at >
           Len(readProperties(meta.stack[Len(meta.stack)].schema))
    /\ meta' = setAfter(meta)
    /\ MetaUnchanged

NoTransaction == [state |-> "none", base |-> <<>>, written |-> <<>>]

\* a single relation declared without a reference option: readReference gives weak
Plain == [collection |-> FALSE, type |-> "weak", chain |-> FALSE, cycle |-> "none"]

Init ==
    /\ meta = NoMetadata
    /\ owner \in {"source", "foreign"}
    /\ schema = Plain
    /\ entries = <<>>
    /\ mapId = [t \in Tables |-> EmptyBiMap]
    /\ thrown = FALSE
    /\ store = [t \in Tables |-> <<>>]
    /\ log = <<>>
    /\ op = NoOp
    /\ pc = "idle"
    /\ wait = EmptyMap
    /\ frames = <<>>
    /\ trx = NoTransaction
    /\ prev = NoOp
    /\ nops = 0

Next ==
    \/ Return
    \/ \E t \in Tables : \E v \in InsertInputs(t) : Insert(t, v)
    \/ \E t \in Tables : \E v \in SaveInputs(t) : Save(t, v)
    \/ \E t \in Tables : \E w \in FindFilters : Find(t, w)
    \/ FlushBase
    \/ FlushBaseReturn
    \/ \E f \in DOMAIN wait : ForeignReturn(f)
    \/ Join
    \/ FindRows
    \/ FindRelations

Spec == Init /\ [][Next]_vars

RegistryIds == {Undef, "s1", "s2"}

RegistryInputs(t) ==
    {Obj(Build(i, Absent, Absent)) : i \in {Absent, "s1", "s2"}}
    \cup (IF t = "T1"
          THEN {ObjRel(EmptyMap, Build(i, Absent, Absent)) : i \in {Absent, "s1"}}
          ELSE {})

NextRegistry ==
    \/ \E t \in Tables : Create(t)
    \/ \E t \in Tables : \E v \in RegistryInputs(t) : Instantiate(t, v)
    \/ \E t \in Tables : \E id \in RegistryIds : FindById(t, id)
    \/ \E e \in 1..MaxRegistry : \E v \in RegistryIds : SetId(e, v)

SpecRegistry == Init /\ [][NextRegistry]_vars

\* the values assigned to a relation property: undefined, a new foreign
\* object, or one that names a foreign id
RelationItems == {Build(Absent, "kb", Absent), Build("s1", Absent, Absent),
                  Build("s1", "kb", Absent)}

RelationInputs ==
    IF schema.collection
    THEN {ObjNoRel(EmptyMap), ObjList(EmptyMap, <<>>)}
         \cup {ObjList(EmptyMap, <<r>>) : r \in RelationItems}
         \cup {ObjList(EmptyMap, <<Build(Absent, "kb", Absent), Build("s1", Absent, Absent)>>)}
    ELSE {ObjNoRel(EmptyMap)} \cup {ObjRel(EmptyMap, r) : r \in RelationItems}

NextRelation ==
    \/ (entries = <<>> /\ Create("T1"))
    \/ \E v \in RelationInputs : SetRelation(1, v)
    \/ \E e \in 1..MaxLinked : \E v \in (IF e = 1 THEN {"s3"} ELSE {"s1", "s2"}) :
          SetColumn(e, "id", v)
    \/ \E e \in 1..MaxLinked : Bind(e)

\* RelationColumnMetadata: a collection column is owned by the foreign table
InitRelation ==
    /\ meta = NoMetadata
    /\ owner \in {"source", "foreign"}
    /\ schema \in {[Plain EXCEPT !.collection = c] : c \in {FALSE, owner = "foreign"}}
    /\ entries = <<>>
    /\ mapId = [t \in Tables |-> EmptyBiMap]
    /\ thrown = FALSE
    /\ store = [t \in Tables |-> <<>>]
    /\ log = <<>>
    /\ op = NoOp
    /\ pc = "idle"
    /\ wait = EmptyMap
    /\ frames = <<>>
    /\ trx = NoTransaction
    /\ prev = NoOp
    /\ nops = 0

SpecRelation == InitRelation /\ [][NextRelation]_vars

\* the values staged for a cascade: new objects, the one of T1 with or
\* without a nested new object; the cascade is run from the entry staged first
CascadeInputs(t) ==
    IF t = "T1"
    THEN {Obj(Build(Absent, "ka", Absent)),
          ObjRel(Build(Absent, "ka", Absent), Build(Absent, "kb", Absent))}
    ELSE {Obj(Build(Absent, "kb", Absent))}

InitCascade ==
    /\ meta = NoMetadata
    /\ owner \in {"source", "foreign"}
    /\ schema = [Plain EXCEPT !.chain = TRUE]
    /\ entries = <<>>
    /\ mapId = [t \in Tables |-> EmptyBiMap]
    /\ thrown = FALSE
    /\ store = [t \in Tables |-> <<>>]
    /\ log = <<>>
    /\ op = NoOp
    /\ pc = "idle"
    /\ wait = EmptyMap
    /\ frames = <<>>
    /\ trx = NoTransaction
    /\ prev = NoOp
    /\ nops = 0

NextCascade ==
    \/ \E t \in {"T1", "T2"} : \E v \in CascadeInputs(t) : Stage(t, v)
    \/ \E e \in 1..MaxCascade : Link(e, ObjRel(EmptyMap, Build(Absent, "kc", Absent)))
    \/ MarkRemove(1)
    \/ FlushCall(1)
    \/ \E i \in DOMAIN frames : Relations(i)
    \/ \E i \in DOMAIN frames : StatementReturn(i)
    \/ \E i \in DOMAIN frames : StatementFails(i)
    \/ \E i \in DOMAIN frames : Resolved(i)

SpecCascade == InitCascade /\ [][NextCascade]_vars

\* the tables related in a cycle, the join columns on the declaring side
InitCycle ==
    /\ meta = NoMetadata
    /\ owner = "source"
    /\ schema \in {[Plain EXCEPT !.cycle = c] : c \in {"self", "mutual"}}
    /\ entries = <<>>
    /\ mapId = [t \in Tables |-> EmptyBiMap]
    /\ thrown = FALSE
    /\ store = [t \in Tables |-> <<>>]
    /\ log = <<>>
    /\ op = NoOp
    /\ pc = "idle"
    /\ wait = EmptyMap
    /\ frames = <<>>
    /\ trx = NoTransaction
    /\ prev = NoOp
    /\ nops = 0

\* a cascade over the cycle, followed until MaxNest calls are under way
NextFlushCycle ==
    \/ \E t \in {"T1", "T2"} : Stage(t, Obj(Build(Absent, "ka", Absent)))
    \/ Stage("T1", ObjRel(Build(Absent, "ka", Absent), Build(Absent, "kb", Absent)))
    \/ FlushCall(1)
    \/ \E i \in DOMAIN frames : Len(frames) < MaxNest /\ Relations(i)
    \/ \E i \in DOMAIN frames : Len(frames) < MaxNest /\ StatementReturn(i)
    \/ \E i \in DOMAIN frames : Resolved(i)

SpecFlushCycle == InitCycle /\ [][NextFlushCycle]_vars

\* cascades run before and inside one transaction, finds run after it has ended
NextTransaction ==
    \/ Begin
    \/ trx.state \in {"none", "open"}
          /\ \E t \in Tables : \E v \in InsertInputs(t) : Insert(t, v)
    \/ TrxReturn
    \/ CommitTransaction
    \/ RollbackTransaction
    \/ trx.state \notin {"none", "open"} /\ \E t \in Tables : Find(t, NoWhere)
    \/ trx.state # "open" /\ Return
    \/ FlushBase
    \/ FlushBaseReturn
    \/ \E f \in DOMAIN wait : ForeignReturn(f)
    \/ Join
    \/ FindRows
    \/ FindRelations

SpecTransaction == Init /\ [][NextTransaction]_vars

(***************************************************************************)
(* The registry: identity of the entries                                   *)
(***************************************************************************)
\* C1: in one registry, after any sequence of create, instantiate and id
\* assignments (failed assignments included), no two distinct entries of the
\* same table hold the same defined primary-key value.
C1_UniquePrimaryKey ==
    \A e1, e2 \in 1..Len(entries) :
        (/\ e1 # e2
         /\ entries[e1].table = entries[e2].table
         /\ entries[e1].data["id"] # Undef)
            => entries[e1].data["id"] # entries[e2].data["id"]

\* C9: a lookup of (table, id) returns the entry that holds that id: once an
\* entry's id is v the lookup of v returns that entry, and an id under which an
\* entry is still found is the id the entry holds (after a change from a to b
\* the lookup of a no longer returns it).
C9_LookupReturnsHolder ==
    /\ \A e \in 1..Len(entries) :
            entries[e].data["id"] # Undef
                => findById(Reg, entries[e].table, entries[e].data["id"]) = e
    /\ \A t \in Tables : \A id \in DOMAIN mapId[t].kv :
            entries[findById(Reg, t, id)].data["id"] = id

C2_ChildInsertFirst ==
    (/\ owner = "source"
     /\ op.kind = "insert"
     /\ op.input.relKind = "object"
     /\ "id" \notin DOMAIN op.input.rel)
        => \A i \in 1..Len(log) :
              (log[i].kind = "insert" /\ log[i].table = "T1")
                  => \E j \in 1..(i - 1) : log[j].kind = "insert" /\ log[j].table = "T2"

\* C3: with owner = foreign, an insert of a parent that carries a nested new
\* child issues the parent's INSERT before the child's INSERT, the child's
\* INSERT writes the parent's generated id (the id of the row the parent's
\* INSERT created) into the join column, and a successful insert has issued
\* the child's INSERT.
C3_ParentInsertFirst ==
    (/\ owner = "foreign"
     /\ op.kind = "insert"
     /\ op.input.relKind = "object"
     /\ "id" \notin DOMAIN op.input.rel)
        => /\ \A j \in 1..Len(log) :
                (log[j].kind = "insert" /\ log[j].table = "T2")
                    => /\ \E i \in 1..(j - 1) :
                            /\ log[i].kind = "insert"
                            /\ log[i].table = "T1"
                            /\ log[i].entry = op.root
                       /\ "join" \in DOMAIN log[j].changes
                       /\ log[j].changes["join"] \in Nums \cup Strs
                       /\ NumIndex(log[j].changes["join"]) = Len(store["T1"])
                       /\ log[j].changes["join"] = entries[op.root].data["id"]
           /\ (pc = "done" /\ op.ok)
                => \E j \in 1..Len(log) : log[j].kind = "insert" /\ log[j].table = "T2"

\* an insert with owner = foreign has completed after the parent's and the child's INSERT
C3_Witness ==
    /\ owner = "foreign"
    /\ pc = "done"
    /\ op.ok
    /\ op.kind = "insert"
    /\ op.input.relKind = "object"
    /\ "id" \notin DOMAIN op.input.rel
    /\ Len(log) = 2
    /\ log[1].kind = "insert" /\ log[1].table = "T1"
    /\ log[2].kind = "insert" /\ log[2].table = "T2"

\* C4: when an insert of a parent with a nested new child has completed
\* successfully, parent and child hold the ids of the rows created for them
\* and the join column of the owning side equals the id of the other side, in
\* the store and in the entries.
C4_JoinHoldsGeneratedId ==
    (/\ pc = "done"
     /\ op.ok
     /\ op.kind = "insert"
     /\ op.input.relKind = "object"
     /\ "id" \notin DOMAIN op.input.rel)
        => LET p == op.root
               c == entries[p].rel
               np == Len(store["T1"])
               nc == Len(store["T2"])
           IN  /\ c # NoEntry
               /\ np > 0 /\ nc > 0
               /\ entries[p].data["id"] = StrName[np]
               /\ entries[c].data["id"] = StrName[nc]
               /\ IF owner = "source"
                  THEN /\ store["T1"][np]["join"] = NumName[nc]
                       /\ entries[p].data["join"] = entries[c].data["id"]
                  ELSE /\ store["T2"][nc]["join"] = NumName[np]
                       /\ entries[c].data["join"] = entries[p].data["id"]

\* an insert with owner = source has completed and the parent's row holds a join value
C4_Witness ==
    /\ owner = "source"
    /\ pc = "done"
    /\ op.ok
    /\ op.kind = "insert"
    /\ op.input.relKind = "object"
    /\ "id" \notin DOMAIN op.input.rel
    /\ Len(store["T1"]) > 0
    /\ store["T1"][Len(store["T1"])]["join"] # Null

\* C5: save called with a value that has no primary-key field fails, issues no
\* statement and so inserts no row.
C5_SaveRequiresPrimaryKey ==
    (op.kind = "save" /\ "id" \notin DOMAIN op.input.base)
        => /\ log = <<>>
           /\ pc = "done" => ~op.ok

\* C6: every write statement is chosen by the state its entry has when the
\* statement is issued.  It is issued only for an entry with a dirty non-id,
\* non-generated base field and sets exactly those fields; it is an INSERT
\* returning the base columns when the entry has no primary-key value and an
\* UPDATE filtered by the primary key otherwise; one step issues at most one
\* statement per entry; a root entry with no such dirty field gets no
\* statement and its flush goes on to the foreign entries, each dirty one of
\* which gets its statement.
C6_StatementByState ==
    [][LET new == (Len(log) + 1)..Len(log')
       IN  /\ \A i \in new :
                log'[i].kind # "select"
                    => LET s == log'[i]
                           e == s.entry
                           t == entries'[e].table
                           id == entries'[e].data["id"]
                           dirtyCols == {c \in ColumnSet(t) :
                                            entries'[e].dirty[c] /\ c # "id"}
                       IN  /\ dirtyCols # {}
                           /\ DOMAIN s.changes = dirtyCols
                           /\ s.table = t
                           /\ s.returning = baseColumns(t)
                           /\ id = Undef => s.kind = "insert"
                           /\ id # Undef => /\ s.kind = "update"
                                            /\ s.where = [col |-> "id", vals |-> {id}]
                           /\ \A j \in new : j # i => log'[j].entry # e
           /\ (/\ pc \in {"base1", "base2"}
               /\ pc' # pc
               /\ \A c \in ColumnSet(op.table) : entries[op.root].dirty[c] => c = "id")
                => /\ \A i \in new : log'[i].entry # op.root
                   /\ pc = "base1"
                        => /\ pc' = "relations"
                           /\ \A f \in 1..Len(entries') :
                                (/\ op.table = "T1"
                                 /\ entries'[f].table = "T2"
                                 /\ \E c \in ColumnSet("T2") : entries'[f].dirty[c] /\ c # "id")
                                    => \E i \in new : log'[i].entry = f]_vars

\* one entry has been written by an INSERT first (it had no id) and by an
\* UPDATE filtered by its generated id afterwards
C6_Witness ==
    /\ Len(log) = 3
    /\ log[1].kind = "insert"
    /\ log[3].kind = "update"
    /\ log[3].entry = log[1].entry
    /\ log[3].where.col = "id"

\* C7: a save of a value with an id and a subset of the base fields (no
\* relation) sets, in every UPDATE of the saved entry, only base fields the
\* value provides.
C7_UpdateSetsProvidedOnly ==
    (/\ op.kind = "save"
     /\ "id" \in DOMAIN op.input.base
     /\ op.input.relKind = "absent")
        => \A i \in 1..Len(log) :
              (log[i].kind = "update" /\ log[i].entry = op.root)
                  => DOMAIN log[i].changes \subseteq (DOMAIN op.input.base) \ {"id"}

Leaf(n) == Entity(n, <<Prop("id", IdSchema)>>)

Related(n, k, d) == Entity(n, <<Prop("id", IdSchema), Prop(k, d)>>)

\* the ways a relation property is declared: nothing set, owner set to
\* foreign, or an array of the entity
RelationOptions(d) ==
    {d, [d EXCEPT !.owner = "foreign"], [d EXCEPT !.collection = TRUE]}

\* the other metadata of a relation property: optional, a join name, a strong
\* reference, an array declared with owner source
MoreOptions(d) ==
    {[d EXCEPT !.nullable = TRUE], [d EXCEPT !.joinName = "fk"],
     [d EXCEPT !.reference = "strong"],
     [d EXCEPT !.collection = TRUE, !.owner = "source"],
     [d EXCEPT !.owner = "foreign", !.nullable = TRUE]}

\* the ways an id is declared: optional and generated, required, and
\* generated through the key generate
Ids ==
    {IdSchema, [Scalar EXCEPT !.id = TRUE],
     [Scalar EXCEPT !.id = TRUE, !.generated = {"generate"}]}

Descriptions ==
    {Leaf("A"), Leaf("B")}
    \cup {Related("A", "b", r) : r \in RelationOptions(Leaf("B"))}
    \cup {Related("A", "self", r) : r \in RelationOptions(Leaf("A"))}
    \cup {Related("A", "b", r) :
              r \in RelationOptions(Related("B", "a", Leaf("A")))}
    \cup UNION {{Entity("A", <<Prop("id", i), Prop("b", r)>>) :
                     r \in RelationOptions(Entity("B", <<Prop("id", i)>>))
                           \cup MoreOptions(Entity("B", <<Prop("id", i)>>))} :
                 i \in Ids}
    \cup {Entity("A", <<Prop("id", IdSchema), Prop("b", Leaf("B")),
                        Prop("c", [Leaf("B") EXCEPT !.nullable = TRUE])>>),
          Entity("A", <<Prop("id", IdSchema), Prop("B_id", Scalar),
                        Prop("b", Leaf("B"))>>),
          Entity("A", <<Prop("id", IdSchema), Prop("b", Leaf("B")),
                        Prop("B_id", Scalar)>>),
          Entity("A", <<Prop("key", Scalar)>>),
          Entity("A", <<Prop("key", Scalar), Prop("b", Leaf("B"))>>),
          Entity("A", <<Prop("key", Scalar),
                        Prop("b", [Leaf("B") EXCEPT !.owner = "foreign"])>>),
          Entity("A", <<Prop("id", IdSchema), Prop("key", [Scalar EXCEPT !.id = TRUE])>>),
          Entity("A", <<Prop("b", Leaf("B")), Prop("id", IdSchema)>>),
          Entity("A", <<Prop("b", [Leaf("B") EXCEPT !.owner = "foreign"]),
                        Prop("id", IdSchema)>>),
          [Leaf("B") EXCEPT !.entity = Absent, !.table = "B"],
          [Leaf("A") EXCEPT !.table = "B"],
          [Leaf("A") EXCEPT !.entity = Absent],
          Entity("A", <<Prop("id", IdSchema),
                        Prop("b", [Leaf("B") EXCEPT !.entity = Absent, !.table = "B"])>>)}

InitMetadata == Init /\ owner = "source"

NextMetadata ==
    \/ \E d \in Descriptions : Get(d)
    \/ BaseColumn
    \/ RelationKnown
    \/ RelationDerive
    \/ Constructed

SpecMetadata == InitMetadata /\ [][NextMetadata]_vars

RECURSIVE construct(_)
\* the TableMetadata constructors under way in M run to their end: the loop
\* over the properties, the relation columns and the calls of registry.get
\* they make
construct(M) ==
    IF M.stack = <<>> THEN M
    ELSE LET f == M.stack[Len(M.stack)]
         IN IF f.at > Len(readProperties(f.schema)) THEN construct(setAfter(M))
            ELSE LET p == readProperties(f.schema)[f.at]
                 IN IF readEntity(p.schema) = Absent
                    THEN construct([M EXCEPT
                             !.tables[f.table].baseColumns =
                                 Append(@, ColumnMetadata(p.key, p.schema, TRUE)),
                             !.stack[Len(M.stack)].at = f.at + 1])
                    ELSE IF M.storage[readEntity(p.schema)] # 0
                    THEN construct(relateTop(M, M.storage[readEntity(p.schema)]))
                    ELSE construct(getNew(M, p.schema))

\* new MetadataRegistry().get(s)
derive(s) ==
    LET M == [NoMetadata EXCEPT !.args = <<s>>]
    IN IF readEntity(s) = Absent THEN metaThrow(M) ELSE construct(getNew(M, s))


\* the rows a table is filled with through the connection (setup of the
\* tests): the keys by position, the join column unset or naming a row
StoredKeys == <<"ka", "kb", "kc">>

StoredRows ==
    UNION {[1..n -> {Null, "n1", "n2"}] : n \in 0..MaxRows}

rowsOf(js) == [k \in 1..Len(js) |-> [key |-> StoredKeys[k], value |-> Null, join |-> js[k]]]

InitFind ==
    /\ meta = NoMetadata
    /\ owner \in {"source", "foreign"}
    /\ schema \in {[Plain EXCEPT !.collection = c] : c \in {FALSE, owner = "foreign"}}
    /\ entries = <<>>
    /\ mapId = [t \in Tables |-> EmptyBiMap]
    /\ thrown = FALSE
    /\ \E j1 \in StoredRows : \E j2 \in StoredRows :
          store = [t \in Tables |-> IF t = "T1" THEN rowsOf(j1) ELSE rowsOf(j2)]
    /\ log = <<>>
    /\ op = NoOp
    /\ pc = "idle"
    /\ wait = EmptyMap
    /\ frames = <<>>
    /\ trx = NoTransaction
    /\ prev = NoOp
    /\ nops = 0

NextFind ==
    \/ Return
    \/ \E w \in FindFilters : Find("T1", w)
    \/ FindRows
    \/ FindRelations

SpecFind == InitFind /\ [][NextFind]_vars

\* QueryFind.execute after the await, for a table with a relation column:
\* the rows are loaded and the find of the foreign table is issued with the
\* join values of the loaded entries; the find that awaits it is a frame
FindNested ==
    /\ pc = "find1"
    /\ Len(frames) < MaxNest
    /\ relationColumns(log[Len(log)].table) # <<>>
    /\ \E R1 \in {loadRows(Reg, store, log[Len(log)].table, log[Len(log)].where)} :
          IF R1.err
          THEN Finish(R1, op) /\ UNCHANGED <<frames, log>>
          ELSE /\ Commit(R1)
               /\ frames' = Append(frames, [table |-> log[Len(log)].table,
                                            found |-> R1.ret])
               /\ log' = Append(log,
                     [kind |-> "select", table |-> foreignTable(log[Len(log)].table),
                      entry |-> NoEntry, changes |-> EmptyMap,
                      where |-> lookups(R1.entries, R1.ret),
                      returning |-> baseColumns(foreignTable(log[Len(log)].table))])
               /\ UNCHANGED <<op, pc>>
    /\ UNCHANGED <<meta, owner, schema, trx, store, wait, prev, nops>>

\* the tables related in a cycle, filled with rows
InitFindCycle ==
    /\ meta = NoMetadata
    /\ owner = "source"
    /\ schema \in {[Plain EXCEPT !.cycle = c] : c \in {"self", "mutual"}}
    /\ entries = <<>>
    /\ mapId = [t \in Tables |-> EmptyBiMap]
    /\ thrown = FALSE
    /\ \E j1 \in StoredRows : \E j2 \in StoredRows :
          store = [t \in Tables |-> IF t = "T1" THEN rowsOf(j1) ELSE rowsOf(j2)]
    /\ log = <<>>
    /\ op = NoOp
    /\ pc = "idle"
    /\ wait = EmptyMap
    /\ frames = <<>>
    /\ trx = NoTransaction
    /\ prev = NoOp
    /\ nops = 0

\* one find over the cycle, followed until MaxNest finds are under way
NextFindCycle ==
    \/ (nops = 0 /\ \E w \in FindFilters : Find("T1", w))
    \/ FindNested

SpecFindCycle == InitFindCycle /\ [][NextFindCycle]_vars

\* the filters of the finds: every comparison alone, and groups of two levels
\* over three conditions
FilterLeaves ==
    {Cond("eq", "id", <<"n1">>), Cond("ne", "key", <<"ka">>),
     Cond("in", "id", <<"n2", "n3">>)}

Filters ==
    {Cond(o, "id", <<"n2">>) : o \in {"eq", "ne", "gt", "gte", "lt", "lte"}}
    \cup FilterLeaves
    \cup {Group(o, <<a, b>>) : o \in {"and", "or"}, a \in FilterLeaves, b \in FilterLeaves}
    \cup {Group(o, <<a, Group(n, <<b, c>>)>>) :
              o \in {"and", "or"}, n \in {"and", "or"},
              a \in FilterLeaves, b \in FilterLeaves, c \in FilterLeaves}
    \cup {Group(o, <<Group(n, <<a, b>>), c>>) :
              o \in {"and", "or"}, n \in {"and", "or"},
              a \in FilterLeaves, b \in FilterLeaves, c \in FilterLeaves}

\* T1 filled through the connection with rows of either key, in any order;
\* one find is run on each filling
InitFilter ==
    /\ meta = NoMetadata
    /\ owner = "source"
    /\ schema = Plain
    /\ entries = <<>>
    /\ mapId = [t \in Tables |-> EmptyBiMap]
    /\ thrown = FALSE
    /\ \E n \in 0..(MaxRows + 1) : \E ks \in [1..n -> {"ka", "kb"}] :
          store = [t \in Tables |->
                     IF t = "T1"
                     THEN [k \in 1..n |-> [key |-> ks[k], value |-> Null, join |-> Null]]
                     ELSE <<>>]
    /\ log = <<>>
    /\ op = NoOp
    /\ pc = "idle"
    /\ wait = EmptyMap
    /\ frames = <<>>
    /\ trx = NoTransaction
    /\ prev = NoOp
    /\ nops = 0

NextFilter ==
    \/ Return
    \/ (nops = 0 /\ \E g \in Filters : Find("T1", filter(g)))
    \/ FindRows
    \/ FindRelations

SpecFilter == InitFilter /\ [][NextFilter]_vars

\* the arrays assigned: undefined, empty, and arrays of one and two elements
ListInputs ==
    {[defined |-> FALSE, items |-> <<>>]}
    \cup {[defined |-> TRUE, items |-> a] :
              a \in {<<>>, <<"1">>, <<"2">>, <<"1", "2">>, <<"1", Undef>>}}

NextValue ==
    \/ (entries = <<>> /\ Create("T1"))
    \/ \E c \in {"key", "value"} : \E v \in {Undef, Null, "ka", "kb"} : SetColumn(1, c, v)
    \/ \E v \in {Undef, "s1", "s2"} : SetColumn(1, "id", v)
    \/ \E v \in ListInputs : SetList(1, v)
    \/ SetClean(1)

\* an empty registry over the tables with the relation owned by T1
InitValue == Init /\ owner = "source"

SpecValue == InitValue /\ [][NextValue]_vars

\* relation values assigned to a clean or dirty relation: those of
\* RelationInputs and, for a collection, two entries by id in either order
NextDirty ==
    \/ (entries = <<>> /\ Create("T1"))
    \/ \E v \in RelationInputs : SetRelation(1, v)
    \/ (schema.collection /\
        \E a \in {"s1", "s2"} : \E b \in {"s1", "s2"} \ {a} :
           SetRelation(1, ObjList(EmptyMap, <<Build(a, Absent, Absent),
                                              Build(b, Absent, Absent)>>)))
    \/ SetClean(1)

SpecDirty == InitRelation /\ [][NextDirty]_vars

\* Entry.property(column): the property of the entry whose column has the
\* name of the column asked for (NoEntry: undefined); the column is a
\* ColumnMetadata of table t, or a string when t is "-"
property(es, e, t, n) ==
    IF n \in ColumnSet(es[e].table)
              \cup {relationColumns(es[e].table)[i] :
                        i \in DOMAIN relationColumns(es[e].table)}
    THEN [entry |-> e, name |-> n]
    ELSE [entry |-> NoEntry, name |-> n]

\* the program asks entry e for the property of a column
Property(e, t, n) ==
    /\ Idle
    /\ e \in 1..Len(entries)
    /\ op' = [kind |-> "property", root |-> e, table |-> t, column |-> n,
              result |-> property(entries, e, t, n)]
    /\ thrown' = FALSE
    /\ UNCHANGED <<meta, owner, schema, frames, trx, entries, mapId, store, log, pc, wait, prev, nops>>

\* the columns a program can name: those of the tables, and strings
ColumnInputs ==
    {<<t, n>> \in Tables \X {"id", "key", "value", "join", "relation"} :
        n \in ColumnSet(t) \/ (n = "relation" /\ relationColumns(t) # <<>>)}
    \cup {<<"-", n>> : n \in {"key", "other"}}

NextProperty ==
    \/ \E t \in Tables : Create(t)
    \/ \E e \in 1..MaxRegistry : \E c \in ColumnInputs : Property(e, c[1], c[2])

SpecProperty == InitRelation /\ [][NextProperty]_vars

(***************************************************************************)
(* createRaw.  A JavaScript value handed to createRaw is a record: kind is *)
(* "undefined", "null", "scalar" (text is its value), "array" (items) or   *)
(* "object" (fields, a map from its own keys to values); "throw" is the    *)
(* error thrown instead of a result.                                       *)
(***************************************************************************)
JsValue(k, t, i, f) == [kind |-> k, text |-> t, items |-> i, fields |-> f]
JsUndefined == JsValue("undefined", "", <<>>, EmptyMap)
JsNull == JsValue("null", "", <<>>, EmptyMap)
JsScalar(x) == JsValue("scalar", x, <<>>, EmptyMap)
JsArray(xs) == JsValue("array", "", xs, EmptyMap)
JsObject(f) == JsValue("object", "", <<>>, f)
JsThrow == JsValue("throw", "", <<>>, EmptyMap)

\* the tables of the descriptions base { id, ids: array, foreign: foreign_one,
\* foreigns: array of foreign_multi }, foreign_one { id, name } and
\* foreign_multi { id }
RawTables == {"base", "foreign_one", "foreign_multi"}

rawBaseColumns(t) ==
    IF t = "base" THEN <<[name |-> "id", collection |-> FALSE],
                         [name |-> "ids", collection |-> TRUE]>>
    ELSE IF t = "foreign_one" THEN <<[name |-> "id", collection |-> FALSE],
                                     [name |-> "name", collection |-> FALSE]>>
    ELSE <<[name |-> "id", collection |-> FALSE]>>

rawRelationColumns(t) ==
    IF t = "base"
    THEN <<[name |-> "foreign", collection |-> FALSE, foreignTable |-> "foreign_one"],
           [name |-> "foreigns", collection |-> TRUE, foreignTable |-> "foreign_multi"]>>
    ELSE <<>>

\* the value a key of a name list gives, by the column of that name
columnNamed(cs, n) == cs[CHOOSE i \in DOMAIN cs : cs[i].name = n]

columnNames(cs) == {cs[i].name : i \in DOMAIN cs}

\* getRawSingleValue of a value
rawSingleValue(v) ==
    IF v.kind \in {"undefined", "null"} THEN JsUndefined
    ELSE JsScalar(getRawSingleValue(v.text))

getRawMultiValue(v) ==
    IF v.kind \in {"undefined", "null"} THEN JsUndefined
    ELSE JsArray([i \in DOMAIN v.items |-> rawSingleValue(v.items[i])])

RECURSIVE getRawSingleObject(_, _)
RECURSIVE getRawMultiObject(_, _)

\* getRawSingleObject(table, value): undefined and null give undefined, a
\* value that is not an object throws, an object gives the object of its own
\* keys that name a column of table; a relation column is converted with
\* table, the table of the object it is in
getRawSingleObject(t, v) ==
    IF v.kind = "scalar" THEN JsThrow
    ELSE IF v.kind \in {"undefined", "null"} THEN JsUndefined
    ELSE LET own == DOMAIN v.fields
             B == columnNames(rawBaseColumns(t)) \cap own
             R == columnNames(rawRelationColumns(t)) \cap own
             data == [n \in B \cup R |->
                        IF n \in R
                        THEN IF columnNamed(rawRelationColumns(t), n).collection
                             THEN getRawMultiObject(t, v.fields[n])
                             ELSE getRawSingleObject(t, v.fields[n])
                        ELSE IF columnNamed(rawBaseColumns(t), n).collection
                             THEN getRawMultiValue(v.fields[n])
                             ELSE rawSingleValue(v.fields[n])]
         IN IF \E n \in DOMAIN data : data[n].kind = "throw" THEN JsThrow
            ELSE JsObject(data)

\* getRawMultiObject(table, value): an array is converted item by item, any
\* other value that is not undefined or null as the array of that one value
getRawMultiObject(t, v) ==
    IF v.kind \in {"undefined", "null"} THEN JsUndefined
    ELSE LET values == IF v.kind = "array" THEN v.items ELSE <<v>>
             raws == [i \in DOMAIN values |-> getRawSingleObject(t, values[i])]
         IN IF \E i \in DOMAIN raws : raws[i].kind = "throw" THEN JsThrow
            ELSE JsArray(raws)

\* the values createRaw is called with
RawScalars == {JsUndefined, JsScalar("n1")}

RawArrays ==
    {JsUndefined}
    \cup {JsArray(xs) : xs \in {<<>>, <<JsUndefined, JsUndefined>>,
                                <<JsScalar("n1"), JsScalar("n2"), JsScalar("n3")>>}}

\* an object with the keys of ks for which pick gives a value
RawObject(ks, pick) ==
    JsObject([n \in {k \in ks : pick[k].kind # "absent"} |-> pick[n]])

RawAbsent == JsValue("absent", "", <<>>, EmptyMap)

RawNested ==
    {JsUndefined}
    \cup {RawObject({"id", "name", "ids"}, [id |-> i, name |-> n, ids |-> l]) :
              i \in {RawAbsent, JsScalar("n1")},
              n \in {RawAbsent, JsScalar("ka")},
              l \in {RawAbsent, JsArray(<<JsScalar("n2")>>)}}

RawLists ==
    {JsUndefined, JsArray(<<>>), JsArray(<<JsUndefined, JsUndefined>>),
     JsArray(<<JsObject([id |-> JsScalar("n1")]), JsObject([id |-> JsScalar("n2")])>>),
     JsArray(<<JsObject([id |-> JsScalar("n1")]), JsUndefined>>)}

RawInputs ==
    {JsUndefined}
    \cup {RawObject({"id", "ids", "foreign", "foreigns", "other"},
                    [id |-> i, ids |-> l, foreign |-> f, foreigns |-> fs, other |-> o]) :
              i \in RawScalars \cup {RawAbsent},
              l \in RawArrays \cup {RawAbsent},
              f \in RawNested \cup {RawAbsent},
              fs \in RawLists \cup {RawAbsent},
              o \in {RawAbsent, JsScalar("ka")}}

\* the program calls createRaw(table, value)
CreateRaw(t, v) ==
    /\ Idle
    /\ entries = <<>>
    /\ op.kind = "none"
    /\ op' = [kind |-> "createRaw", table |-> t, input |-> v,
              result |-> getRawSingleObject(t, v)]
    /\ UNCHANGED <<meta, owner, schema, frames, trx, entries, mapId, thrown, store, log, pc, wait, prev, nops>>

NextRaw == \E t \in RawTables : \E v \in RawInputs : CreateRaw(t, v)

SpecRaw == InitMetadata /\ [][NextRaw]_vars

(***************************************************************************)
(* The BiMap used directly: the id map of T1, with the keys s1.. and the   *)
(* values 1..                                                              *)
(***************************************************************************)
BiMapKeys == {StrName[i] : i \in 1..MaxBiMap}
BiMapValues == 1..MaxBiMap

\* the BiMap becomes m, nothing else changes
BiMapStep(kind, m) ==
    /\ Idle
    /\ entries = <<>>
    /\ mapId' = [mapId EXCEPT !["T1"] = m]
    /\ op' = [NoOp EXCEPT !.kind = kind]
    /\ UNCHANGED <<meta, owner, schema, frames, trx, entries, thrown, store, log, pc, wait, prev, nops>>

SetByKey(k, v) == BiMapStep("setByKey", setByKey(mapId["T1"], k, v))

SetByValue(v, k) == BiMapStep("setByValue", setByValue(mapId["T1"], v, k))

DeleteByKey(k) == BiMapStep("deleteByKey", deleteByKey(mapId["T1"], k))

DeleteByValue(v) == BiMapStep("deleteByValue", deleteByValue(mapId["T1"], v))

Clear == BiMapStep("clear", EmptyBiMap)

NextBiMap ==
    \/ \E k \in BiMapKeys : \E v \in BiMapValues : SetByKey(k, v)
    \/ \E k \in BiMapKeys : \E v \in BiMapValues : SetByValue(v, k)
    \/ \E k \in BiMapKeys : DeleteByKey(k)
    \/ \E v \in BiMapValues : DeleteByValue(v)
    \/ Clear

SpecBiMap == InitMetadata /\ [][NextBiMap]_vars

(***************************************************************************)
(* The relation properties                                                 *)
(***************************************************************************)
\* C11: right after a single relation property was set to a foreign entry, and
\* right after a later bind() of the entry, the join column of the owning side
\* (the source entry for owner = source, the foreign entry for owner =
\* foreign) equals the target column of the other side.
C11_JoinEqualsTarget ==
    (/\ op.kind \in {"setRelation", "bind"}
     /\ ~thrown
     /\ entries[op.root].rel # NoEntry)
    => entries[op.root].data[sourceColumn]
          = entries[entries[op.root].rel].data[foreignColumn]

\* C11 as the setter implements it: the equality holds right after an
\* assignment that changed the entry the property holds (the setter leaves
\* both sides alone when it is handed the entry it already holds), and right
\* after every bind().
C11_JoinEqualsTargetWhenChanged ==
    [][(/\ op'.kind \in {"setRelation", "bind"}
        /\ ~thrown'
        /\ entries'[op'.root].rel # NoEntry
        /\ \/ op'.kind = "bind"
           \/ entries[op'.root].rel # entries'[op'.root].rel)
       => entries'[op'.root].data[sourceColumn]
             = entries'[entries'[op'.root].rel].data[foreignColumn]]_vars

\* a relation was set to an entry with a defined target, and the join holds it
C11_Witness ==
    /\ op.kind = "setRelation"
    /\ ~thrown
    /\ entries[op.root].rel # NoEntry
    /\ entries[op.root].relDirty
    /\ entries[entries[op.root].rel].data[foreignColumn] # Undef
    /\ entries[op.root].data[sourceColumn]
          = entries[entries[op.root].rel].data[foreignColumn]

\* the foreign entries a relation property holds
linked(es, e) ==
    IF schema.collection THEN {es[e].rels[i] : i \in 1..Len(es[e].rels)}
    ELSE {es[e].rel} \ {NoEntry}

\* C12: when a relation value is cleared or replaced, the owning join column
\* is cleared before it is bound again: with owner = foreign every foreign
\* entry that was linked and is not part of the new value ends with an unset
\* join column; with owner = source the join column of the source entry was
\* set to undefined (it is dirty when it held a value) and ends as the target
\* of the new value, undefined when the new value is undefined.
C12_ClearedBeforeRebound ==
    [][(/\ op'.kind = "setRelation"
        /\ ~thrown'
        /\ op'.root \in 1..Len(entries))
       => LET e == op'.root
          IN  IF owner = "foreign"
              THEN \A f \in linked(entries, e) \ linked(entries', e) :
                      entries'[f].data[foreignColumn] = Undef
              ELSE entries[e].rel # entries'[e].rel
                   => /\ entries'[e].data[sourceColumn]
                          = (IF entries'[e].rel = NoEntry THEN Undef
                             ELSE entries'[entries'[e].rel].data[foreignColumn])
                      /\ entries[e].data[sourceColumn] # Undef
                          => entries'[e].dirty[sourceColumn]]_vars

\* a foreign entry that was linked is no longer part of the value the source
\* entry holds, and its join column was cleared
C12_Witness ==
    /\ op.kind = "setRelation"
    /\ ~thrown
    /\ owner = "foreign"
    /\ entries[op.root].data[sourceColumn] # Undef
    /\ linked(entries, op.root) # {}
    /\ \E f \in 1..Len(entries) :
          /\ entries[f].table = "T2"
          /\ f \notin linked(entries, op.root)
          /\ entries[f].dirty[foreignColumn]
          /\ entries[f].data[foreignColumn] = Undef

\* C13: setting a weak relation to a value that names a foreign entry of the
\* registry changes at most the join column of that entry: every other base
\* field of every foreign entry keeps its value and its dirty flag.
C13_WeakLeavesForeignFields ==
    [][(/\ op'.kind = "setRelation"
        /\ ~thrown'
        /\ schema.type = "weak")
       => \A f \in 1..Len(entries) :
             entries[f].table = "T2"
             => \A c \in ColumnSet("T2") \ {"join"} :
                   /\ entries'[f].data[c] = entries[f].data[c]
                   /\ entries'[f].dirty[c] = entries[f].dirty[c]]_vars


(***************************************************************************)
(* Failures, transactions and removal                                      *)
(***************************************************************************)
\* C14: when a statement of a cascade fails, the operation rejects and no
\* statement of the cascade is issued after the failure, also not by the
\* calls of flush that were started concurrently with the failed one.
C14_NoStatementAfterFailure ==
    /\ (\E i \in DOMAIN frames : frames[i].pc = "failed")
          => pc = "done" /\ ~op.ok
    /\ \A i \in DOMAIN frames :
          frames[i].pc = "failed" => Len(log) = frames[i].at

\* C15: a find that runs after the transaction has ended returns the rows
\* the cascades of the transaction wrote exactly when the transaction was
\* committed: after a commit it returns every row the transaction ended
\* with, after a rollback only the rows committed before it began.
C15_VisibleIffCommitted ==
    (/\ pc = "done"
     /\ op.kind = "find"
     /\ op.ok
     /\ trx.state \in {"committed", "rolledback"})
    => LET visible == IF trx.state = "committed" THEN trx.written ELSE trx.base
       IN  /\ Len(op.result) = Len(visible[op.table])
           /\ \A k \in 1..Len(visible[op.table]) :
                 \E i \in 1..Len(op.result) :
                    \A c \in ColumnSet(op.table) :
                       getRawSingleValue(DbRow(visible, op.table, k)[c])
                          = op.result[i].base[c]

\* a find after a rolled back cascade that wrote a row of each table: it
\* returns the rows committed before the transaction, which are fewer
C15_Witness ==
    /\ pc = "done"
    /\ op.kind = "find"
    /\ op.ok
    /\ trx.state = "rolledback"
    /\ \A t \in Tables : Len(trx.written[t]) > Len(trx.base[t])
    /\ Len(trx.base[op.table]) > 0
    /\ Len(op.result) = Len(trx.base[op.table])

\* C16: the cascade run over an entry marked for removal deletes the row of
\* the entry by its primary key: it issues no other write for the entry and
\* no row of the entry's table holds the entry's id when the cascade is done.
C16_MarkedEntryDeleted ==
    (/\ pc = "done"
     /\ op.kind = "flush"
     /\ op.ok
     /\ entries[op.root].remove)
    => /\ \A i \in 1..Len(log) :
             log[i].entry = op.root => log[i].kind = "delete"
       /\ DbMatch(store, op.table,
                  [col |-> "id", vals |-> {entries[op.root].data["id"]}]) = {}


(***************************************************************************)
(* Metadata derivation                                                     *)
(***************************************************************************)
\* the table objects constructed under an entity name
tablesNamed(n) == {t \in DOMAIN meta.tables : meta.tables[t].name = n}

\* C17: derivation of a description whose relations are cyclic ends with one
\* TableMetadata constructed per entity name, and every relation column made,
\* also one made while its entity was being derived, leads to the table the
\* registry holds under the foreign entity's name.
C17_CyclicResolvesToRegistered ==
    /\ \A n \in Names : Cardinality(tablesNamed(n)) <= 1
    /\ (meta.stack = <<>> /\ ~meta.failed)
       => \A t \in DOMAIN meta.tables :
            \A i \in DOMAIN meta.tables[t].relationColumns :
              LET r == meta.tables[t].relationColumns[i]
              IN meta.storage[meta.tables[r.foreignColumn.table].name]
                     = r.foreignColumn.table

\* C18: a call of get with the description of the call before it, which
\* returned a table, returns that same table and leaves every table as it is.
C18_SecondDerivationIdentical ==
    [][(/\ meta.stack = <<>>
        /\ meta.result # 0
        /\ Len(meta'.args) = Len(meta.args) + 1
        /\ meta'.args[Len(meta'.args)] = meta.args[Len(meta.args)])
       => (/\ meta'.result = meta.result
           /\ meta'.tables = meta.tables
           /\ meta'.stack = <<>>)]_vars

C18_Witness ==
    /\ Len(meta.args) = 2
    /\ meta.args[1] = meta.args[2]
    /\ Len(readProperties(meta.args[2])) = 2
    /\ readProperties(meta.args[2])[2].key = "b"
    /\ meta.stack = <<>>
    /\ meta.result # 0
    /\ Len(meta.tables[meta.result].relationColumns) = 1


(***************************************************************************)
(* The result of find                                                      *)
(***************************************************************************)
\* Entry.dirty (getter): some property of the entry is dirty
entryDirty(es, e) == es[e].relDirty \/ \E c \in AllCols : es[e].dirty[c]

\* C19: when find has returned, every entry it returned is initialized and
\* none of its properties is dirty.
C19_FoundInitializedAndClean ==
    (pc = "done" /\ op.kind = "find" /\ op.ok)
    => \A i \in 1..Len(op.found) :
         /\ entries[op.found[i]].initialized
         /\ ~entryDirty(entries, op.found[i])


\* the rows of T2 whose foreign join value equals the source join value of
\* the row of T1 with id k (none when that value is unset)
matchingRows(k) ==
    {f \in 1..Len(store["T2"]) :
        /\ DbRow(store, "T1", k)[sourceColumn] # Null
        /\ DbRow(store, "T2", f)[foreignColumn] = DbRow(store, "T1", k)[sourceColumn]}

\* the rows of T2 the relation property of entry e holds
relatedRows(e) ==
    IF schema.collection
    THEN {NumIndex(entries[entries[e].rels[i]].data["id"]) : i \in 1..Len(entries[e].rels)}
    ELSE IF entries[e].rel = NoEntry THEN {}
         ELSE {NumIndex(entries[entries[e].rel].data["id"])}

\* C20: when find has returned, the relation of every entry found holds
\* foreign rows whose join value equals the entry's: all of them, each once,
\* for a collection; one of them, or none when there is none, otherwise.
C20_RelationFromMatchingRows ==
    (pc = "done" /\ op.kind = "find" /\ op.ok)
    => \A i \in 1..Len(op.found) :
         LET e == op.found[i]
             m == matchingRows(NumIndex(entries[e].data["id"]))
         IN /\ relatedRows(e) \subseteq m
            /\ m # {} => relatedRows(e) # {}
            /\ schema.collection
               => /\ relatedRows(e) = m
                  /\ Len(entries[e].rels) = Cardinality(m)
                  /\ entries[e].rel = NoEntry
            /\ ~schema.collection => entries[e].rels = <<>>

\* a find of two rows of T1 with a collection: one with two matching rows of
\* T2, one with none
C20_Witness ==
    /\ pc = "done" /\ op.kind = "find" /\ op.ok
    /\ Len(op.found) = 2
    /\ schema.collection
    /\ \E i, j \in 1..2 :
         /\ Len(entries[op.found[i]].rels) = 2
         /\ Cardinality(matchingRows(NumIndex(entries[op.found[i]].data["id"]))) = 2
         /\ relatedRows(op.found[i]) # {}
         /\ matchingRows(NumIndex(entries[op.found[j]].data["id"])) = {}


(***************************************************************************)
(* Filters                                                                 *)
(***************************************************************************)
RECURSIVE filterTrue(_, _)
\* the filter tree g on a row: an and-group is the conjunction and an
\* or-group the disjunction of its conditions
filterTrue(g, row) ==
    IF g.operator = "and"
    THEN \A i \in DOMAIN g.conditions : filterTrue(g.conditions[i], row)
    ELSE IF g.operator = "or"
    THEN \E i \in DOMAIN g.conditions : filterTrue(g.conditions[i], row)
    ELSE DbCompare(g.operator, g.key, row[g.key], g.values)

C22_DirtyIffValueDiffers ==
    [][(op'.kind \in {"setColumn", "setList"} /\ Len(entries') = Len(entries))
       => \A e \in 1..Len(entries) :
            /\ \A c \in ColumnSet(entries[e].table) :
                 entries'[e].dirty[c]
                     = (entries[e].dirty[c] \/ entries'[e].data[c] # entries[e].data[c])
            /\ entries'[e].listDirty
                   = (entries[e].listDirty \/ entries'[e].list # entries[e].list)]_vars

\* an entry whose clean key was assigned the value it held and stayed clean,
\* while its array is dirty
C22_Witness ==
    /\ op.kind = "setColumn"
    /\ entries[op.root].data["key"] = "ka"
    /\ ~entries[op.root].dirty["key"]
    /\ entries[op.root].data["id"] = Undef
    /\ entries[op.root].listDirty
    /\ Len(entries[op.root].list.items) = 2


\* the entries a relation property of entry e refers to, by identity
referenced(es, e) ==
    [defined |-> es[e].hasRels \/ es[e].rel # NoEntry,
     refs |-> {es[e].rels[i] : i \in 1..Len(es[e].rels)}
              \cup ({es[e].rel} \ {NoEntry})]

\* C23: after an assignment to a relation property, the property is dirty
\* exactly when it was dirty before or the set of entries it refers to has
\* changed; the order and the field values of the entries do not count.
C23_DirtyIffReferencesChange ==
    [][(op'.kind = "setRelation" /\ entries # <<>> /\ ~thrown')
       => entries'[1].relDirty
            = (entries[1].relDirty
               \/ referenced(entries', 1) # referenced(entries, 1))]_vars


\* C24: an entry is initialized only when the store has returned a row for
\* it: the table of an initialized entry holds a row with the entry's id, and
\* an update that matched no row leaves the entry uninitialized.
C24_InitializedOnlyAfterRow ==
    \A e \in 1..Len(entries) :
        entries[e].initialized
        => /\ entries[e].data["id"] # Undef
           /\ DbMatch(store, entries[e].table,
                      [col |-> "id", vals |-> {entries[e].data["id"]}]) # {}

\* every relation column of every table, as a table and a place in its list
allRelations ==
    {<<t, i>> \in (DOMAIN meta.tables) \X (1..MaxLinked) :
        i \in DOMAIN meta.tables[t].relationColumns}

\* the join column of a relation: the column on the side that owns the join
ownerColumnOf(r) == IF r.owner = "source" THEN r.sourceColumn ELSE r.foreignColumn

targetColumnOf(r) == IF r.owner = "source" THEN r.foreignColumn ELSE r.sourceColumn

\* the relations whose join column was synthesized for them alone
synthesizedFor ==
    {x \in allRelations :
        LET r == meta.tables[x[1]].relationColumns[x[2]]
        IN /\ ~deref(meta.tables, ownerColumnOf(r)).declared
           /\ \A y \in allRelations :
                ownerColumnOf(meta.tables[y[1]].relationColumns[y[2]])
                    = ownerColumnOf(r) => y = x}

\* C25: a join column synthesized for a relation that declares no join name
\* is a base column of the owning table (the relation's table when the owner
\* is source, the related table when it is foreign), the only one named
\* <target table>_<target id column>; it is neither id nor generated, and it
\* is nullable exactly when the relation is.
C25_SynthesizedJoinColumn ==
    \A x \in synthesizedFor :
        LET r == meta.tables[x[1]].relationColumns[x[2]]
            oc == ownerColumnOf(r)
            c == deref(meta.tables, oc)
            tc == targetColumnOf(r)
        IN readJoinName(r.schema) = Absent
           => /\ oc.list = "base"
              /\ (r.owner = "source" => oc.table = x[1] /\ tc.table # 0)
              /\ (r.owner = "foreign" => tc.table = x[1])
              /\ c.name = meta.tables[tc.table].name \o "_"
                              \o deref(meta.tables, tc).name
              /\ Cardinality({j \in DOMAIN meta.tables[oc.table].baseColumns :
                     meta.tables[oc.table].baseColumns[j].name = c.name}) = 1
              /\ ~c.id
              /\ ~c.generated
              /\ (c.nullable <=> r.nullable)

\* C26: no table has two base columns of one name, and two relations whose
\* join columns have the same name on the same table share one column.
C26_JoinColumnReused ==
    /\ \A t \in DOMAIN meta.tables :
         \A i, j \in DOMAIN meta.tables[t].baseColumns :
            meta.tables[t].baseColumns[i].name = meta.tables[t].baseColumns[j].name
                => i = j
    /\ \A x, y \in allRelations :
         LET cx == ownerColumnOf(meta.tables[x[1]].relationColumns[x[2]])
             cy == ownerColumnOf(meta.tables[y[1]].relationColumns[y[2]])
         IN (/\ cx.table = cy.table
             /\ deref(meta.tables, cx).name = deref(meta.tables, cy).name)
            => cx = cy

\* TableMetadata.columns: the base columns, then the relation columns
columns(tb) == tb.baseColumns \o tb.relationColumns

\* the description declares exactly one id field
oneId(s) ==
    Cardinality({i \in DOMAIN readProperties(s) : readProperties(s)[i].schema.id}) = 1

\* a TableMetadata constructor returns to registry.get without an error
derivedStep ==
    /\ meta.stack # <<>>
    /\ Len(meta'.stack) = Len(meta.stack) - 1
    /\ ~meta'.failed
    /\ oneId(meta.stack[Len(meta.stack)].schema)

\* C27 as stated: the columns of a table derived from a description with
\* exactly one id field are as many as the fields the description declares.
C27_ColumnsEqualDeclaredFields ==
    [][derivedStep
       => LET f == meta.stack[Len(meta.stack)]
          IN Len(columns(meta'.tables[f.table])) = Len(readProperties(f.schema))]_vars

\* C27 amended: the columns of a table derived from a description with exactly
\* one id field are as many as the fields the description declares plus the
\* join columns synthesized on the table.
C27_ColumnsEqualDeclaredPlusJoin ==
    [][derivedStep
       => LET f == meta.stack[Len(meta.stack)]
              tb == meta'.tables[f.table]
          IN Len(columns(tb))
               = Len(readProperties(f.schema))
                 + Cardinality({i \in DOMAIN tb.baseColumns :
                                   ~tb.baseColumns[i].declared})]_vars

C27_Witness ==
    /\ meta.stack = <<>>
    /\ meta.result # 0
    /\ Len(meta.args) = 1
    /\ oneId(meta.args[1])
    /\ Len(readProperties(meta.args[1])) = 2
    /\ Len(columns(meta.tables[meta.result])) = 3
    /\ ~meta.tables[meta.result].baseColumns[2].declared

\* C28: a relation declared as an array of the entity has owner foreign
\* whatever owner it declares, any other relation has owner source unless it
\* declares foreign; its type is weak unless it declares strong; the target
\* column of the join is the id column of the table that does not own it, the
\* related table when the owner is source and the relation's own table when
\* the owner is foreign.
C28_OwnerTypeAndTarget ==
    \A x \in allRelations :
        LET r == meta.tables[x[1]].relationColumns[x[2]]
            tc == targetColumnOf(r)
        IN /\ r.schema.collection => r.owner = "foreign"
           /\ ~r.schema.collection
                => r.owner = (IF r.schema.owner = "foreign" THEN "foreign" ELSE "source")
           /\ r.type = (IF r.schema.reference = "strong" THEN "strong" ELSE "weak")
           /\ r.owner = "source"
                => /\ tc.table # 0
                   /\ meta.tables[tc.table].name = readEntity(r.schema)
           /\ r.owner = "foreign" => tc.table = x[1]
           /\ r.owner \in {"source", "foreign"}
                => /\ tc = tableId(meta.tables, tc.table)
                   /\ deref(meta.tables, tc).id
                   /\ ownerColumnOf(r).table # 0
                   /\ (ownerColumnOf(r).table = tc.table
                          => readEntity(r.schema) = meta.tables[x[1]].name)

C28_Witness ==
    /\ meta.stack = <<>>
    /\ meta.result # 0
    /\ \E x \in allRelations :
          LET r == meta.tables[x[1]].relationColumns[x[2]]
          IN /\ r.schema.collection
             /\ r.schema.owner = "source"
             /\ r.owner = "foreign"
             /\ r.type = "weak"
             /\ r.sourceColumn = tableId(meta.tables, x[1])

\* C30: a table that registry.get returned has exactly one id column: a
\* description that declares no id field makes get throw.
C30_DerivedTableHasOneId ==
    (meta.stack = <<>> /\ meta.result # 0)
        => Cardinality({i \in DOMAIN meta.tables[meta.result].baseColumns :
                           meta.tables[meta.result].baseColumns[i].id}) = 1

\* C29: asking an entry for the property of a column that is not a column of
\* the entry's own table throws; no property is returned.
C29_ForeignColumnThrows ==
    (/\ op.kind = "property"
     /\ \/ op.table # entries[op.root].table
        \/ op.column \notin ColumnSet(entries[op.root].table) \cup {"relation"}
        \/ (op.column = "relation" /\ relationColumns(entries[op.root].table) = <<>>))
        => thrown

\* C31: a table that registry.get returns is named by the description's
\* entity metadata when it has one, otherwise by its table metadata; a call
\* with a description that has neither throws and leaves the tables and the
\* storage of the registry as they were.
C31_NameFromEntityOrTable ==
    [][(MetaIdle /\ Len(meta'.args) = Len(meta.args) + 1)
       => LET s == meta'.args[Len(meta'.args)]
          IN /\ (s.entity = Absent /\ s.table = Absent)
                  => /\ meta'.failed
                     /\ meta'.result = 0
                     /\ meta'.stack = <<>>
                     /\ meta'.tables = meta.tables
                     /\ meta'.storage = meta.storage
             /\ (s.entity # Absent \/ s.table # Absent)
                  => /\ ~meta'.failed
                     /\ \/ /\ meta'.stack # <<>>
                           /\ meta'.tables[meta'.stack[1].table].name
                                = (IF s.entity # Absent THEN s.entity ELSE s.table)
                        \/ /\ meta'.stack = <<>>
                           /\ meta'.result # 0
                           /\ meta'.tables[meta'.result].name
                                = (IF s.entity # Absent THEN s.entity ELSE s.table)]_vars

\* the name of every stored table is the key it is stored under
storedUnderName ==
    \A n \in Names : meta.storage[n] # 0 => meta.tables[meta.storage[n]].name = n

C31_Witness ==
    /\ Len(meta.args) = 2
    /\ meta.args[1].entity = "A" /\ meta.args[1].table = "B"
    /\ meta.args[2].entity = Absent /\ meta.args[2].table = Absent
    /\ meta.failed
    /\ meta.storage["A"] # 0
    /\ meta.storage["B"] = 0
    /\ storedUnderName

\* the result keeps the shape of the value when it is converted with the
\* columns of table t
RECURSIVE keepsShape(_, _, _)
keepsShape(t, v, r) ==
    IF v.kind \in {"undefined", "null"} THEN r.kind = "undefined"
    ELSE /\ r.kind = "object"
         /\ DOMAIN r.fields
              = DOMAIN v.fields
                \cap (columnNames(rawBaseColumns(t)) \cup columnNames(rawRelationColumns(t)))
         /\ \A n \in DOMAIN r.fields :
              LET x == v.fields[n]
                  y == r.fields[n]
              IN IF n \in columnNames(rawRelationColumns(t))
                 THEN LET c == columnNamed(rawRelationColumns(t), n)
                      IN IF c.collection
                         THEN IF x.kind = "array"
                              THEN /\ y.kind = "array"
                                   /\ Len(y.items) = Len(x.items)
                                   /\ \A i \in DOMAIN x.items :
                                        keepsShape(c.foreignTable, x.items[i], y.items[i])
                              ELSE y.kind = "undefined"
                         ELSE keepsShape(c.foreignTable, x, y)
                 ELSE IF columnNamed(rawBaseColumns(t), n).collection
                      THEN IF x.kind = "array"
                           THEN /\ y.kind = "array"
                                /\ Len(y.items) = Len(x.items)
                                /\ \A i \in DOMAIN x.items :
                                     y.items[i] = rawSingleValue(x.items[i])
                           ELSE y.kind = "undefined"
                      ELSE y = rawSingleValue(x)

\* C32: createRaw(table, value) keeps the shape of the value: undefined gives
\* undefined, an object gives the object of its keys that are columns of the
\* table, a scalar its string, an array an array of the same length with
\* undefined items left undefined, and a nested relation object or list is
\* converted with the columns of the relation's foreign table.
C32_RawKeepsShape ==
    op.kind = "createRaw" => keepsShape(op.table, op.input, op.result)

\* the INSERT statements a cascade has issued for entry e
insertsOf(e) == {i \in DOMAIN log : log[i].kind = "insert" /\ log[i].entry = e}

\* C33: one commit cascade issues at most one INSERT statement for an entry.
C33_OneInsertPerEntry ==
    \A e \in 1..Len(entries) : Cardinality(insertsOf(e)) <= 1

\* C37: one commit cascade issues statements only for its root entry and for
\* entries that can be reached from it through relation properties.
RECURSIVE reachable(_, _)
reachable(es, S) ==
    LET T == S \cup UNION {linked(es, e) : e \in S}
    IN IF T = S THEN S ELSE reachable(es, T)

C37_OnlyReachableWritten ==
    pc \in {"cascade", "done"} /\ op.kind = "flush"
        => \A i \in DOMAIN log :
              log[i].entry \in reachable(entries, {op.root})

\* C36: an assignment to an entry of the registry that throws leaves the
\* entries and the id map as they were: the entry keeps its id value and its
\* dirty flag, and the id still maps to the entry that held it.
C36_RejectedIdLeavesStateUnchanged ==
    [][(thrown' /\ Len(entries') = Len(entries))
       => (entries' = entries /\ mapId' = mapId)]_vars

\* C39: the two maps of a BiMap are inverse of each other: getByKey(k) is v
\* exactly when getByValue(v) is k, so no key has two values and no value
\* has two keys.
C39_BiMapInverse ==
    LET m == mapId["T1"]
    IN /\ \A k \in BiMapKeys : \A v \in BiMapValues :
            getByKey(m, k) = v <=> getByValue(m, v) = k
       /\ \A k \in BiMapKeys : getByKey(m, k) \in BiMapValues \cup {NoEntry}
       /\ \A v \in BiMapValues : getByValue(m, v) \in BiMapKeys \cup {Undef}
       /\ Cardinality(DOMAIN m.kv) = Cardinality(DOMAIN m.vk)

\* a value was moved to a key that held another value, next to a second pair
C39_Witness ==
    /\ op.kind = "setByKey"
    /\ getByKey(mapId["T1"], "s1") = 2
    /\ getByValue(mapId["T1"], 2) = "s1"
    /\ getByKey(mapId["T1"], "s2") = 1
    /\ getByValue(mapId["T1"], 1) = "s2"
    /\ Cardinality(DOMAIN mapId["T1"].kv) = 2

\* the descriptions with the fields of s in another order
permutations(s) ==
    LET n == Len(readProperties(s))
    IN {[s EXCEPT !.props = [i \in 1..n |-> readProperties(s)[f[i]]]] :
           f \in {g \in [1..n -> 1..n] : \A i, j \in 1..n : g[i] = g[j] => i = j}}

\* what a derivation yields: whether it threw, and of every table the names
\* of its base columns, their number, and the wiring of its relations
yield(M) ==
    [failed |-> M.failed,
     tables |->
        IF M.failed THEN {}
        ELSE {[name |-> M.tables[t].name,
               size |-> Len(M.tables[t].baseColumns),
               base |-> {M.tables[t].baseColumns[i].name :
                            i \in DOMAIN M.tables[t].baseColumns},
               relations |->
                  {With(M.tables[t].relationColumns[i], LAMBDA r :
                        [name |-> r.name, owner |-> r.owner, type |-> r.type,
                         source |-> <<M.tables[r.sourceColumn.table].name,
                                      deref(M.tables, r.sourceColumn).name,
                                      deref(M.tables, r.sourceColumn).declared>>,
                         foreign |-> <<M.tables[r.foreignColumn.table].name,
                                       deref(M.tables, r.foreignColumn).name,
                                       deref(M.tables, r.foreignColumn).declared>>]) :
                      i \in DOMAIN M.tables[t].relationColumns}] :
                t \in DOMAIN M.tables}]

\* C38: the first derivation of a registry yields what the derivation of the
\* same fields in any other order yields: both throw or both succeed with the
\* same column names and the same relation wiring.
C38_OrderIndependent ==
    (Len(meta.args) = 1 /\ meta.stack = <<>>)
        => \A d \in permutations(meta.args[1]) : yield(derive(d)) = yield(meta)

C34_NestedFindsEnd ==
    /\ \A i \in DOMAIN log : i > 1 => log[i].where.vals # {}
    /\ \A i, j \in DOMAIN log :
          (i < j /\ log[i].table = log[j].table) => log[i].where # log[j].where

====
